---- MODULE Spec2Model ----
(***************************************************************************)
(* Model of opa-quotes-api's real-time distribution path                   *)
(* (src/opa_quotes_api/routers/websocket.py).                              *)
(*                                                                         *)
(* Every WebSocket connection runs its own websocket_endpoint coroutine.   *)
(* The coroutine registers the socket in the module-level                  *)
(* ConnectionManager, opens its own Redis Pub/Sub subscription to          *)
(* "quotes.realtime" and forwards to its own socket the messages that pass *)
(* its ticker filter.  Coroutines interleave at their awaits; one action   *)
(* of the model is the code between two awaits of one coroutine.           *)
(*                                                                         *)
(* Strings whose content the code inspects (the tickers query parameter,   *)
(* the ticker of an event) are sequences of one-character strings.         *)
(*                                                                         *)
(* The second part models the cache-aside read path: CacheService          *)
(* (services/cache_service.py) over a Redis store whose entries expire,    *)
(* and QuoteService (services/quote_service.py) over that cache and the    *)
(* origin store.  It has specifications of its own, in which no WebSocket  *)
(* connection is open.                                                     *)
(***************************************************************************)
EXTENDS Integers, Sequences, FiniteSets, TLC

\* ------------------------------------------------------------------------
\* Bounds of the model
\* ------------------------------------------------------------------------
MaxPublish == 2

\* The concurrent connections, named in their order of arrival.
Conns == {1, 2}

\* ------------------------------------------------------------------------
\* Python string operations used by the filter parser
\* ------------------------------------------------------------------------
Lower == <<"a","b","c","d","e","f","g","h","i","j","k","l","m",
           "n","o","p","q","r","s","t","u","v","w","x","y","z">>
Upper == <<"A","B","C","D","E","F","G","H","I","J","K","L","M",
           "N","O","P","Q","R","S","T","U","V","W","X","Y","Z">>

Whitespace == {" ", "\t", "\n", "\r"}

upperChar(c) ==
    IF \E i \in DOMAIN Lower : Lower[i] = c
    THEN Upper[CHOOSE i \in DOMAIN Lower : Lower[i] = c]
    ELSE c

\* str.upper that leaves the text as it is.
upper_as_given(s) == s

\* str.upper
upper(s) == [i \in DOMAIN s |-> upperChar(s[i])]

RECURSIVE lstrip(_)
lstrip(s) ==
    IF s # <<>> /\ Head(s) \in Whitespace THEN lstrip(Tail(s)) ELSE s

RECURSIVE rstrip(_)
rstrip(s) ==
    IF s # <<>> /\ s[Len(s)] \in Whitespace
    THEN rstrip(SubSeq(s, 1, Len(s) - 1))
    ELSE s

strip(s) == rstrip(lstrip(s))

RECURSIVE split(_, _)
split(s, sep) ==
    IF \E i \in DOMAIN s : s[i] = sep
    THEN LET i == CHOOSE k \in DOMAIN s :
                      s[k] = sep /\ \A j \in 1..(k - 1) : s[j] # sep
         IN  <<SubSeq(s, 1, i - 1)>> \o split(SubSeq(s, i + 1, Len(s)), sep)
    ELSE <<s>>

\* ------------------------------------------------------------------------
\* Inputs: the tickers query parameter and the upstream payloads
\* ------------------------------------------------------------------------
None == <<"<None>">>

TickerParams ==
    { None,
      <<"*", ",", " ">>,
      <<" ", "a", "a", "p", "l", ",">>,
      <<"M", "S", "F", "T">> }

AAPL == <<"A", "A", "P", "L">>
MSFT == <<"M", "S", "F", "T">>

\* A payload is the text published on the channel.  kind is what json.loads
\* makes of it: "invalid" raises JSONDecodeError, "object" is a JSON object.
\* ticker is <<>> when the object has no "ticker" key and <<t>> when it has
\* one with the string value t.
Payloads ==
    { [kind |-> "invalid", ticker |-> <<>>],
      [kind |-> "object",  ticker |-> <<>>],
      [kind |-> "object",  ticker |-> << <<"a", "a", "p", "l">> >>] }

WellFormed(p) == p.kind = "object" /\ p.ticker # <<>>

Confirmation == [type |-> "subscribe", seq |-> 0,
                 data |-> [kind |-> "count", ticker |-> <<>>]]

\* ------------------------------------------------------------------------
\* Data of the cache
\* ------------------------------------------------------------------------
\* No value: what Redis answers for a key it does not hold.
Nil == [nil |-> TRUE]

\* str.encode and bytes.decode('utf-8'): bytes are either the UTF-8 encoding
\* of a text or bytes that are not valid UTF-8, on which decode raises.
encode(s) == [utf8 |-> s]

Undecodable == [raw |-> <<255>>]

decodable(b) == "utf8" \in DOMAIN b

decode(b) == b.utf8

\* Python truthiness of a str and of a bytes value: empty is false.
EmptyStr == [chars |-> <<>>]

truthy(s) == s # EmptyStr

truthy_bytes(b) == b # encode(EmptyStr)

\* f"quote:{ticker.upper()}:latest"
make_latest_key(ticker) ==
    <<"q", "u", "o", "t", "e", ":">> \o upper(ticker)
        \o <<":", "l", "a", "t", "e", "s", "t">>

\* f"capacity:score:{quote.ticker}"
capacity_key(ticker) ==
    <<"c", "a", "p", "a", "c", "i", "t", "y", ":",
      "s", "c", "o", "r", "e", ":">> \o ticker

\* datetime.isoformat of the days of the model, written as two digits.
isoformat(d) == <<"0", <<"1", "2", "3">>[d]>>

\* f"quote:{ticker.upper()}:history:{start_date}:{end_date}:{interval}"
make_history_key(ticker, start_date, end_date, interval) ==
    <<"q", "u", "o", "t", "e", ":">> \o upper(ticker)
        \o <<":", "h", "i", "s", "t", "o", "r", "y", ":">>
        \o start_date \o <<":">> \o end_date \o <<":">> \o interval

\* The symbols the origin store may hold a quote for.
Symbols == {AAPL, MSFT}

\* The history requests of the model: one range of days of one symbol, at
\* two intervals.  HistoryRequest.validate_date_range wants end > start.
HistoryRequests ==
    { [ticker |-> <<"a", "a", "p", "l">>, start_date |-> 1, end_date |-> 2,
       interval |-> i] : i \in {<<"1", "m">>, <<"1", "d">>} }

\* The keys get_history reads and writes for these requests.
HistoryKeys ==
    { make_history_key(r.ticker, isoformat(r.start_date),
                       isoformat(r.end_date), r.interval) :
        r \in HistoryRequests }

\* The keys of the latest quotes and of the capacity record.
CacheKeys ==
    {make_latest_key(AAPL), make_latest_key(MSFT), capacity_key(AAPL)}

\* The keys the capacity listener writes besides capacity_key(AAPL).
ListenerKeys == {capacity_key(<<"a", "a", "p", "l">>), capacity_key(MSFT)}

\* The keys of the model's Redis.
StoreKeys == CacheKeys \cup HistoryKeys \cup ListenerKeys

\* The patterns invalidate_pattern is called with: quote:*, quote:AAPL:*,
\* *:score:????, and history:* which matches no key.
Patterns ==
    { <<"q", "u", "o", "t", "e", ":", "*">>,
      <<"q", "u", "o", "t", "e", ":", "A", "A", "P", "L", ":", "*">>,
      <<"*", ":", "s", "c", "o", "r", "e", ":", "?", "?", "?", "?">>,
      <<"h", "i", "s", "t", "o", "r", "y", ":", "*">> }

\* The texts CacheService.set is called with, the empty text among them.
Texts == {EmptyStr, [chars |-> <<"a">>], [chars |-> <<"b">>]}

\* CacheService.default_ttl
default_ttl == 5

\* The ttl arguments of CacheService.set: <<>> is None (the default of the
\* parameter), <<n>> is n seconds.
TtlArgs == {<<>>, <<0>>, <<1>>, <<2>>}

\* What a call returns when it returns None; <<x>> when it returns x.
Absent == <<>>

\* ------------------------------------------------------------------------
\* State
\* ------------------------------------------------------------------------
VARIABLES
    active_connections, \* ConnectionManager.active_connections: id -> socket
    issued,             \* number of client ids uuid4 has handed out
    pc,                 \* position of each connection's coroutine
    client_id,          \* its client_id (0 before the coroutine starts)
    tickers,            \* its tickers query parameter
    ticker_filter,      \* its parsed filter
    accept_all,         \* its accept_all flag
    redis_client,       \* whether it holds an open Redis client
    pubsub,             \* "none" | "created" | "subscribed" | "closed"
    queue,              \* messages its subscription has still to yield
    outbox,             \* messages its socket has accepted, in order
    send_failed,        \* number of send_json calls that raised
    close_code,         \* code it passed to websocket.close (0: never called)
    exit_by,            \* "none" | "disconnect" | "error"
    escaped,            \* exception that left the coroutine ("none")
    published,          \* every payload published on quotes.realtime
    sub_at              \* Len(published) when its subscription began

VARIABLES
    store,              \* Redis: key -> Nil or [val: bytes, ttl: seconds left]
    last_set,           \* the last CacheService.set that succeeded, with
                        \* its age in seconds (Nil: none, or its key has
                        \* been written or removed since)
    scan,               \* keys an invalidate_pattern call has scanned and
                        \* not yet deleted (Nil: no call is in progress)
    cache_ret,          \* the last CacheService call and what it returned
    origin,             \* the origin store: symbol -> <<>> or <<latest price>>
    read_ret            \* the QuoteService call being answered (Nil: none)

VARIABLES
    task,               \* the task of CapacitySubscriber.listen: "listening"
                        \* | "writing" | "returned" | "cancelled"
    channel,            \* messages of capacity.scoring it has yet to take
    setex_call,         \* the setex it awaits (Nil: none)
    subscriber_pubsub,  \* its self.pubsub: "subscribed" | "closed"
    subscriber_redis,   \* its self.redis is open
    scoring_sent,       \* number of messages published on capacity.scoring
    taken               \* the messages its loop has taken, in order

VARIABLES
    reader              \* the concurrent get_latest calls: caller -> where
                        \* the call is, its locals and what it returned

conn_vars == <<pc, client_id, tickers, ticker_filter, accept_all,
               redis_client, pubsub, queue, outbox, send_failed, close_code,
               exit_by, escaped, sub_at>>
ws_vars == <<active_connections, issued, published, conn_vars>>
cache_vars == <<store, last_set, scan, cache_ret>>
svc_vars == <<cache_vars, origin, read_ret>>
lis_vars == <<task, channel, setex_call, subscriber_pubsub, subscriber_redis,
              scoring_sent, taken>>
vars == <<active_connections, issued, published, conn_vars, svc_vars,
          lis_vars, reader>>

\* The module has been imported: the manager is empty, no coroutine runs.
NoConnection ==
    /\ active_connections = <<>>
    /\ issued = 0
    /\ pc = [h \in Conns |-> "new"]
    /\ client_id = [h \in Conns |-> 0]
    /\ tickers = [h \in Conns |-> None]
    /\ ticker_filter = [h \in Conns |-> {}]
    /\ accept_all = [h \in Conns |-> TRUE]
    /\ redis_client = [h \in Conns |-> FALSE]
    /\ pubsub = [h \in Conns |-> "none"]
    /\ queue = [h \in Conns |-> <<>>]
    /\ outbox = [h \in Conns |-> <<>>]
    /\ send_failed = [h \in Conns |-> 0]
    /\ close_code = [h \in Conns |-> 0]
    /\ exit_by = [h \in Conns |-> "none"]
    /\ escaped = [h \in Conns |-> "none"]
    /\ published = <<>>
    /\ sub_at = [h \in Conns |-> 0]

\* Nothing is cached, no call has been made, the origin holds no quote.
ColdCache ==
    /\ store = [k \in StoreKeys |-> Nil]
    /\ last_set = Nil
    /\ scan = Nil
    /\ cache_ret = Nil
    /\ origin = [t \in Symbols |-> Absent]
    /\ read_ret = Nil

\* The lifespan has connected the capacity subscriber and started its task.
ListenerStarted ==
    /\ task = "listening"
    /\ channel = <<>>
    /\ setex_call = Nil
    /\ subscriber_pubsub = "subscribed"
    /\ subscriber_redis = TRUE
    /\ scoring_sent = 0
    /\ taken = <<>>

\* The concurrent callers of get_latest.
Callers == {1, 2}

\* A caller that has not called yet.
IdleCall ==
    [pc |-> "idle", ticker |-> <<>>, cache_key |-> <<>>, quote |-> <<>>,
     ret |-> <<>>, calls |-> <<>>]

NoCall == reader = [c \in Callers |-> IdleCall]

Init == NoConnection /\ ColdCache /\ ListenerStarted /\ NoCall

\* ------------------------------------------------------------------------
\* ConnectionManager
\* ------------------------------------------------------------------------
\* connect, after websocket.accept() has returned: register the socket.
connect(conns, ws, id) ==
    [k \in DOMAIN conns \cup {id} |-> IF k = id THEN ws ELSE conns[k]]

\* disconnect that leaves the registry as it is.
disconnect_keep(conns, id) == [conns |-> conns, exc |-> "none"]

\* disconnect without the membership test: pop raises KeyError.
disconnect_unchecked(conns, id) ==
    IF id \in DOMAIN conns
    THEN [conns |-> [k \in DOMAIN conns \ {id} |-> conns[k]], exc |-> "none"]
    ELSE [conns |-> conns, exc |-> "KeyError"]

\* disconnect: pop the id when it is registered, else do nothing.
\* exc is the exception the call raises ("none": it returns normally).
disconnect(conns, id) ==
    IF id \in DOMAIN conns
    THEN [conns |-> [k \in DOMAIN conns \ {id} |-> conns[k]], exc |-> "none"]
    ELSE [conns |-> conns, exc |-> "none"]

\* send_message that only logs a failed send and keeps the registration.
send_message_keep(conns, id, transport_ok) ==
    IF id \in DOMAIN conns
    THEN [conns |-> conns, pushed |-> TRUE, to |-> conns[id],
          delivered |-> transport_ok, ret |-> "None", exc |-> "none"]
    ELSE [conns |-> conns, pushed |-> FALSE, to |-> 0,
          delivered |-> FALSE, ret |-> "None", exc |-> "none"]

\* send_message that reports the failed send to its caller.
send_message_signal(conns, id, transport_ok) ==
    IF id \in DOMAIN conns
    THEN IF transport_ok
         THEN [conns |-> conns, pushed |-> TRUE, to |-> conns[id],
               delivered |-> TRUE, ret |-> "None", exc |-> "none"]
         ELSE [conns |-> disconnect(conns, id).conns, pushed |-> TRUE,
               to |-> conns[id], delivered |-> FALSE, ret |-> "failed",
               exc |-> "none"]
    ELSE [conns |-> conns, pushed |-> FALSE, to |-> 0,
          delivered |-> FALSE, ret |-> "None", exc |-> "none"]

\* send_message that pushes to the caller's socket without consulting the
\* registry.
send_message_unchecked(conns, id, transport_ok) ==
    [conns |-> IF transport_ok THEN conns ELSE disconnect(conns, id).conns,
     pushed |-> TRUE, to |-> id, delivered |-> transport_ok,
     ret |-> "None", exc |-> "none"]

\* send_message: transport_ok tells whether send_json returns or raises.
\*   pushed     send_json was called on socket `to`
\*   delivered  send_json returned
\*   ret        the value returned to the caller (always Python's None)
\*   exc        the exception raised to the caller
send_message(conns, id, transport_ok) ==
    IF id \in DOMAIN conns
    THEN IF transport_ok
         THEN [conns |-> conns, pushed |-> TRUE, to |-> conns[id],
               delivered |-> TRUE, ret |-> "None", exc |-> "none"]
         ELSE [conns |-> disconnect(conns, id).conns, pushed |-> TRUE,
               to |-> conns[id], delivered |-> FALSE, ret |-> "None",
               exc |-> disconnect(conns, id).exc]
    ELSE [conns |-> conns, pushed |-> FALSE, to |-> 0,
          delivered |-> FALSE, ret |-> "None", exc |-> "none"]

\* ------------------------------------------------------------------------
\* websocket_endpoint
\* ------------------------------------------------------------------------
\* A client id that is not unique per connection.
uuid4_constant(n) == 1

\* client_id = str(uuid.uuid4()): a token no earlier call has returned.
uuid4(n) == n + 1

\* The tickers query parameter parsed to the filter set.
parse_filter(param) ==
    IF param = None \/ param = <<>>
    THEN {}
    ELSE LET parts == split(param, ",")
         IN  {upper(strip(parts[i])) :
                 i \in {j \in DOMAIN parts : strip(parts[j]) # <<>>}}

compute_accept_all(filter) == filter = {} \/ <<"*">> \in filter

\* data.get("ticker", "").upper()
event_ticker(data) ==
    IF data.ticker = <<>> THEN <<>> ELSE upper(data.ticker[1])

\* The filter test without the .upper() of the event's ticker.
classify_case_sensitive(all, filter, msg) ==
    IF msg.type # "message" THEN "skip"
    ELSE IF msg.data.kind = "invalid" THEN "invalid"
    ELSE IF msg.data.kind # "object" THEN "error"
    ELSE IF msg.data.ticker = <<>> THEN (IF all THEN "send" ELSE "filtered")
    ELSE IF all \/ msg.data.ticker[1] \in filter THEN "send"
    ELSE "filtered"

\* What the body of the listen loop does with one message:
\*   "skip"      its type is not "message"
\*   "invalid"   json.loads raised JSONDecodeError
\*   "error"     another exception was raised while handling it
\*   "send"      it passes the filter: send_message is called
\*   "filtered"  it does not pass the filter
classify(all, filter, msg) ==
    IF msg.type # "message" THEN "skip"
    ELSE IF msg.data.kind = "invalid" THEN "invalid"
    ELSE IF msg.data.kind # "object" THEN "error"
    ELSE IF all \/ event_ticker(msg.data) \in filter THEN "send"
    ELSE "filtered"

\* A loop without the JSONDecodeError clause: the error ends the loop.
after_message_crash(c) == IF c = "invalid" THEN "cleanup" ELSE "listening"

\* A loop that returns after its first delivery, without cleanup.
after_message_return(c) == IF c = "send" THEN "done" ELSE "listening"

\* Where the loop goes after a message: both except clauses `continue`.
after_message(c) == "listening"

\* A loop that receives the newest message first.
next_index_newest(q) == Len(q)

\* async for message in pubsub.listen(): the position, in the messages the
\* subscription holds, of the one the loop receives next.
next_index(q) == 1

remove_at(q, i) == SubSeq(q, 1, i - 1) \o SubSeq(q, i + 1, Len(q))

\* The request arrives: lines 112-125.
Start(h, param) ==
    /\ pc[h] = "new"
    /\ \A g \in Conns : g < h => pc[g] # "new"
    /\ issued' = issued + 1
    /\ client_id' = [client_id EXCEPT ![h] = uuid4(issued)]
    /\ tickers' = [tickers EXCEPT ![h] = param]
    /\ ticker_filter' = [ticker_filter EXCEPT ![h] = parse_filter(param)]
    /\ accept_all' = [accept_all EXCEPT
                         ![h] = compute_accept_all(parse_filter(param))]
    /\ pc' = [pc EXCEPT ![h] = "accepting"]
    /\ UNCHANGED <<svc_vars, lis_vars, reader>>
    /\ UNCHANGED <<active_connections, published, redis_client, pubsub, queue,
                   outbox, send_failed, close_code, exit_by, escaped, sub_at>>

\* manager.connect: websocket.accept() returned, the socket is registered.
AcceptOk(h) ==
    /\ pc[h] = "accepting"
    /\ active_connections' = connect(active_connections, h, client_id[h])
    /\ pc' = [pc EXCEPT ![h] = "registered"]
    /\ UNCHANGED <<svc_vars, lis_vars, reader>>
    /\ UNCHANGED <<issued, published, client_id, tickers, ticker_filter,
                   accept_all, redis_client, pubsub, queue, outbox,
                   send_failed, close_code, exit_by, escaped, sub_at>>

\* websocket.accept() raised WebSocketDisconnect: the client went away
\* (except WebSocketDisconnect, lines 159-160, only logs).
AcceptDisconnect(h) ==
    /\ pc[h] = "accepting"
    /\ exit_by' = [exit_by EXCEPT ![h] = "disconnect"]
    /\ pc' = [pc EXCEPT ![h] = "cleanup"]
    /\ UNCHANGED <<svc_vars, lis_vars, reader>>
    /\ UNCHANGED <<active_connections, issued, published, client_id, tickers,
                   ticker_filter, accept_all, redis_client, pubsub, queue,
                   outbox, send_failed, close_code, escaped, sub_at>>

\* An except clause that only logs.
on_exception_silent(code) == code

\* except Exception, lines 162-167: websocket.close(code=1011) is called;
\* what the close itself raises is swallowed.
on_exception(code) == 1011

\* websocket.accept() raised another exception.
AcceptError(h) ==
    /\ pc[h] = "accepting"
    /\ exit_by' = [exit_by EXCEPT ![h] = "error"]
    /\ close_code' = [close_code EXCEPT ![h] = on_exception(@)]
    /\ pc' = [pc EXCEPT ![h] = "cleanup"]
    /\ UNCHANGED <<svc_vars, lis_vars, reader>>
    /\ UNCHANGED <<active_connections, issued, published, client_id, tickers,
                   ticker_filter, accept_all, redis_client, pubsub, queue,
                   outbox, send_failed, escaped, sub_at>>

\* redis.from_url, pubsub() and subscribe("quotes.realtime") all returned.
SubscribeOk(h) ==
    /\ pc[h] = "registered"
    /\ redis_client' = [redis_client EXCEPT ![h] = TRUE]
    /\ pubsub' = [pubsub EXCEPT ![h] = "subscribed"]
    /\ queue' = [queue EXCEPT ![h] = <<Confirmation>>]
    /\ sub_at' = [sub_at EXCEPT ![h] = Len(published)]
    /\ pc' = [pc EXCEPT ![h] = "listening"]
    /\ UNCHANGED <<svc_vars, lis_vars, reader>>
    /\ UNCHANGED <<active_connections, issued, published, client_id, tickers,
                   ticker_filter, accept_all, outbox, send_failed, close_code,
                   exit_by, escaped>>

\* redis.from_url raised (at_subscribe = FALSE: no client, no pubsub) or
\* subscribe raised (at_subscribe = TRUE: both objects exist).
SubscribeError(h, at_subscribe) ==
    /\ pc[h] = "registered"
    /\ redis_client' = [redis_client EXCEPT ![h] = at_subscribe]
    /\ pubsub' = [pubsub EXCEPT
                     ![h] = IF at_subscribe THEN "created" ELSE "none"]
    /\ exit_by' = [exit_by EXCEPT ![h] = "error"]
    /\ close_code' = [close_code EXCEPT ![h] = on_exception(@)]
    /\ pc' = [pc EXCEPT ![h] = "cleanup"]
    /\ UNCHANGED <<svc_vars, lis_vars, reader>>
    /\ UNCHANGED <<active_connections, issued, published, client_id, tickers,
                   ticker_filter, accept_all, queue, outbox, send_failed,
                   escaped, sub_at>>

\* A publisher publishes payload p on quotes.realtime: Redis hands it to
\* every subscription that is open at that moment.
Publish(p) ==
    /\ Len(published) < MaxPublish
    /\ published' = Append(published, p)
    /\ queue' = [h \in Conns |->
                    IF pubsub[h] = "subscribed"
                    THEN Append(queue[h], [type |-> "message",
                                           seq |-> Len(published) + 1,
                                           data |-> p])
                    ELSE queue[h]]
    /\ UNCHANGED <<svc_vars, lis_vars, reader>>
    /\ UNCHANGED <<active_connections, issued, pc, client_id, tickers,
                   ticker_filter, accept_all, redis_client, pubsub, outbox,
                   send_failed, close_code, exit_by, escaped, sub_at>>

\* One turn of the listen loop, lines 139-157: take the next message, parse
\* it, filter it and call manager.send_message.  transport_ok is the outcome
\* of send_json, should it be called.  Whatever the body raises is caught by
\* the two except clauses of the loop, which continue with the next message.
\* The await of send_json is inside this action: the registry entry of a
\* client_id is written only by the coroutine that owns the id, which is the
\* one that is waiting, so no other coroutine can change it in between.
Listen(h, transport_ok) ==
    /\ pc[h] = "listening"
    /\ queue[h] # <<>>
    /\ LET i   == next_index(queue[h])
           msg == queue[h][i]
           c   == classify(accept_all[h], ticker_filter[h], msg)
           r   == send_message(active_connections, client_id[h], transport_ok)
       IN  /\ queue' = [queue EXCEPT ![h] = remove_at(@, i)]
           /\ IF c = "send"
              THEN /\ active_connections' = r.conns
                   /\ outbox' = IF r.delivered
                                THEN [outbox EXCEPT ![r.to] =
                                        Append(@, [seq |-> msg.seq,
                                                   data |-> msg.data])]
                                ELSE outbox
                   /\ send_failed' = IF r.pushed /\ ~r.delivered
                                     THEN [send_failed EXCEPT ![r.to] = @ + 1]
                                     ELSE send_failed
              ELSE UNCHANGED <<active_connections, outbox, send_failed>>
           /\ pc' = [pc EXCEPT ![h] = after_message(c)]
    /\ UNCHANGED <<svc_vars, lis_vars, reader>>
    /\ UNCHANGED <<issued, published, client_id, tickers, ticker_filter,
                   accept_all, redis_client, pubsub, close_code, exit_by,
                   escaped, sub_at>>

\* pubsub.listen() raised: the connection to Redis is lost.
ListenError(h) ==
    /\ pc[h] = "listening"
    /\ exit_by' = [exit_by EXCEPT ![h] = "error"]
    /\ close_code' = [close_code EXCEPT ![h] = on_exception(@)]
    /\ pc' = [pc EXCEPT ![h] = "cleanup"]
    /\ UNCHANGED <<svc_vars, lis_vars, reader>>
    /\ UNCHANGED <<active_connections, issued, published, client_id, tickers,
                   ticker_filter, accept_all, redis_client, pubsub, queue,
                   outbox, send_failed, escaped, sub_at>>

\* finally, lines 169-186: unregister, then unsubscribe and close what was
\* opened.  An exception of disconnect would leave the coroutine.
Finally(h) ==
    /\ pc[h] = "cleanup"
    /\ active_connections' = disconnect(active_connections, client_id[h]).conns
    /\ escaped' = [escaped EXCEPT
                      ![h] = disconnect(active_connections, client_id[h]).exc]
    /\ pubsub' = [pubsub EXCEPT ![h] = IF @ = "none" THEN "none" ELSE "closed"]
    /\ redis_client' = [redis_client EXCEPT ![h] = FALSE]
    /\ queue' = [queue EXCEPT ![h] = <<>>]
    /\ pc' = [pc EXCEPT ![h] = "done"]
    /\ UNCHANGED <<svc_vars, lis_vars, reader>>
    /\ UNCHANGED <<issued, published, client_id, tickers, ticker_filter,
                   accept_all, outbox, send_failed, close_code, exit_by,
                   sub_at>>

Next ==
    \/ \E h \in Conns, t \in TickerParams : Start(h, t)
    \/ \E h \in Conns : AcceptOk(h)
    \/ \E h \in Conns : AcceptDisconnect(h)
    \/ \E h \in Conns : AcceptError(h)
    \/ \E h \in Conns : SubscribeOk(h)
    \/ \E h \in Conns, b \in BOOLEAN : SubscribeError(h, b)
    \/ \E p \in Payloads : Publish(p)
    \/ \E h \in Conns, ok \in BOOLEAN : Listen(h, ok)
    \/ \E h \in Conns : ListenError(h)
    \/ \E h \in Conns : Finally(h)

Spec == Init /\ [][Next]_vars

\* ------------------------------------------------------------------------
\* Vocabulary of the properties
\* ------------------------------------------------------------------------
Registered(h) == client_id[h] \in DOMAIN active_connections

SeqsOf(box) == {box[i].seq : i \in DOMAIN box}

\* The published messages connection h's loop has already taken.
Consumed(h) ==
    {n \in (sub_at[h] + 1)..Len(published) :
        \A i \in DOMAIN queue[h] : queue[h][i].seq # n}

\* Connection h's loop takes a message in this step.
Took(h) == pc[h] = "listening" /\ Len(queue'[h]) < Len(queue[h])

\* The filter each tickers parameter of TickerParams stands for: split on
\* commas, trim, uppercase, drop the empty items.
ExpectedFilter(param) ==
    IF param = None THEN {}
    ELSE IF param = <<"*", ",", " ">> THEN {<<"*">>}
    ELSE IF param = <<" ", "a", "a", "p", "l", ",">> THEN {AAPL}
    ELSE {MSFT}

\* Filter F lets symbol s through.
Matches(F, s) == F = {} \/ <<"*">> \in F \/ upper(s) \in F

Delivery(m) == [seq |-> m.seq, data |-> m.data]

AaplEvent == [kind |-> "object", ticker |-> << <<"a", "a", "p", "l">> >>]

\* ------------------------------------------------------------------------
\* C1
\* ------------------------------------------------------------------------
\* C1: the filter of every connection is its tickers parameter split on
\* commas, trimmed, uppercased and without empty items; and when the loop of
\* a registered connection takes a well-formed event with symbol s, the event
\* is pushed to the connection's socket if and only if the filter is empty,
\* contains "*" or contains s in upper case (the push puts it in the outbox
\* unless the transport raises).
C1_FilteredDelivery ==
    /\ [](\A h \in Conns :
            pc[h] # "new" => ticker_filter[h] = ExpectedFilter(tickers[h]))
    /\ [][\A h \in Conns :
            (/\ Took(h)
             /\ Registered(h)
             /\ Head(queue[h]).type = "message"
             /\ WellFormed(Head(queue[h]).data))
            => LET m == Head(queue[h])
               IN  IF Matches(ExpectedFilter(tickers[h]), m.data.ticker[1])
                   THEN \/ /\ outbox'[h] = Append(outbox[h], Delivery(m))
                           /\ send_failed'[h] = send_failed[h]
                        \/ /\ outbox'[h] = outbox[h]
                           /\ send_failed'[h] = send_failed[h] + 1
                   ELSE /\ outbox'[h] = outbox[h]
                        /\ send_failed'[h] = send_failed[h]]_vars

\* One connection filtered to {AAPL}, one to {MSFT}; both have taken the one
\* published AAPL event and only the first has received it.
C1_Witness ==
    \E h, g \in Conns :
        /\ ticker_filter[h] = {AAPL} /\ ticker_filter[g] = {MSFT}
        /\ pc[h] = "listening" /\ pc[g] = "listening"
        /\ Registered(h) /\ Registered(g)
        /\ published = <<AaplEvent>>
        /\ Consumed(h) = {1} /\ Consumed(g) = {1}
        /\ outbox[h] = <<[seq |-> 1, data |-> AaplEvent]>>
        /\ outbox[g] = <<>>

\* ------------------------------------------------------------------------
\* C2
\* ------------------------------------------------------------------------
\* Every matching well-formed event a registered connection has taken is in
\* its outbox, whatever happened to the other connections.
NoLoss ==
    \A g \in Conns :
        (pc[g] = "listening" /\ Registered(g)) =>
            \A n \in Consumed(g) :
                (/\ WellFormed(published[n])
                 /\ Matches(ticker_filter[g], published[n].ticker[1]))
                => n \in SeqsOf(outbox[g])

\* C2: a failed delivery to one connection unregisters that connection and
\* changes nothing of any other connection (its registration, its pending
\* messages, its outbox, its position), and every registered connection has
\* received each matching event it has taken.
C2_FailureIsolated ==
    /\ []NoLoss
    /\ [][\A h \in Conns :
            send_failed'[h] > send_failed[h] =>
                /\ ~Registered(h)'
                /\ \A g \in Conns \ {h} :
                      /\ Registered(g)' = Registered(g)
                      /\ queue'[g] = queue[g]
                      /\ outbox'[g] = outbox[g]
                      /\ pc'[g] = pc[g]]_vars

\* The same event failed for h and was delivered to g.
C2_Witness ==
    \E h, g \in Conns :
        /\ h # g
        /\ pc[h] = "listening" /\ pc[g] = "listening"
        /\ published = <<AaplEvent>>
        /\ Matches(ticker_filter[h], AaplEvent.ticker[1])
        /\ Matches(ticker_filter[g], AaplEvent.ticker[1])
        /\ Consumed(h) = {1} /\ Consumed(g) = {1}
        /\ send_failed[h] = 1 /\ ~Registered(h) /\ outbox[h] = <<>>
        /\ Registered(g) /\ outbox[g] = <<[seq |-> 1, data |-> AaplEvent]>>

C4_DisconnectIdempotent ==
    [][\A h \in Conns :
        (pc[h] = "cleanup" /\ pc'[h] = "done") =>
            /\ DOMAIN active_connections'
                 = DOMAIN active_connections \ {client_id[h]}
            /\ \A k \in DOMAIN active_connections' :
                  active_connections'[k] = active_connections[k]
            /\ ~Registered(h) => active_connections' = active_connections
            /\ escaped'[h] = "none"]_vars

\* One connection ended without ever being registered, the other ended
\* after a failed send had already removed it, and nothing was raised.
C4_Witness ==
    \E h, g \in Conns :
        /\ pc[h] = "done" /\ exit_by[h] = "disconnect"
        /\ pc[g] = "done" /\ send_failed[g] = 1
        /\ escaped[h] = "none" /\ escaped[g] = "none"

\* ------------------------------------------------------------------------
\* C5
\* ------------------------------------------------------------------------
\* C5: while a connection's id is not in the registry nothing is pushed to
\* its socket, and a turn of its loop (a send_message call for its id
\* included) changes neither the registry nor the loop's position.
C5_NoPushWhenUnregistered ==
    [][\A h \in Conns :
        ~Registered(h) =>
            /\ outbox'[h] = outbox[h]
            /\ send_failed'[h] = send_failed[h]
            /\ Took(h) => /\ pc'[h] = "listening"
                          /\ active_connections' = active_connections]_vars

\* Two matching events: the push of the first failed, the second was taken
\* after the connection had been unregistered and was not pushed.
C5_Witness ==
    \E h \in Conns :
        /\ pc[h] = "listening"
        /\ published = <<AaplEvent, AaplEvent>>
        /\ Matches(ticker_filter[h], AaplEvent.ticker[1])
        /\ Consumed(h) = {1, 2}
        /\ send_failed[h] = 1 /\ outbox[h] = <<>> /\ ~Registered(h)

\* ------------------------------------------------------------------------
\* C6
\* ------------------------------------------------------------------------
\* C6: what a connection has received is a subsequence of the published
\* sequence, in publication order.
C6_OrderPreserved ==
    \A h \in Conns :
        /\ \A i \in DOMAIN outbox[h] :
              /\ outbox[h][i].seq \in DOMAIN published
              /\ outbox[h][i].data = published[outbox[h][i].seq]
        /\ \A i, j \in DOMAIN outbox[h] :
              i < j => outbox[h][i].seq < outbox[h][j].seq

\* A connection has received two events.
C6_Witness ==
    \E h \in Conns :
        /\ Len(outbox[h]) = 2
        /\ outbox[h][1].seq = 1 /\ outbox[h][2].seq = 2

\* ------------------------------------------------------------------------
\* C7
\* ------------------------------------------------------------------------
\* The connections whose accept has returned and that no failed send or
\* cleanup has removed.
Accepted(h) ==
    \/ pc[h] = "registered"
    \/ pc[h] = "listening" /\ send_failed[h] = 0

\* C7: started connections have pairwise distinct ids; every accepted
\* connection is registered under its id with its own socket; the registry
\* holds no entry of a connection that is not past its accept; and the
\* registered connections whose loop forwards an AAPL event are exactly
\* those whose tickers parameter stands for a filter that matches AAPL.
C7_ConcurrentRegister ==
    /\ \A h, g \in Conns :
          (h # g /\ pc[h] # "new" /\ pc[g] # "new")
              => client_id[h] # client_id[g]
    /\ \A h \in Conns :
          Accepted(h) => /\ Registered(h)
                         /\ active_connections[client_id[h]] = h
    /\ \A k \in DOMAIN active_connections :
          \E h \in Conns :
              /\ client_id[h] = k
              /\ active_connections[k] = h
              /\ pc[h] \in {"registered", "listening", "cleanup"}
    /\ LET m == [type |-> "message", seq |-> 1, data |-> AaplEvent]
       IN  {k \in DOMAIN active_connections :
               classify(accept_all[active_connections[k]],
                        ticker_filter[active_connections[k]], m) = "send"}
           = {client_id[h] : h \in
                 {g \in Conns : /\ Registered(g)
                                /\ Matches(ExpectedFilter(tickers[g]), AAPL)}}

\* Both connections were accepting at the same time and are now registered,
\* one with a filter that matches AAPL and one with a filter that does not.
C7_Witness ==
    /\ \A h \in Conns : pc[h] = "registered"
    /\ Cardinality(DOMAIN active_connections) = Cardinality(Conns)
    /\ \E h, g \in Conns :
          /\ Matches(ticker_filter[h], AAPL)
          /\ ~Matches(ticker_filter[g], AAPL)

\* ------------------------------------------------------------------------
\* C8
\* ------------------------------------------------------------------------
\* C8: taking a payload that is not valid JSON delivers nothing and leaves
\* the loop listening and the registry as it was; and a registered
\* connection that has taken such a payload has still received every
\* matching well-formed event it took after it.
C8_InvalidJsonDropped ==
    /\ [](\A h \in Conns :
            (pc[h] = "listening" /\ Registered(h)) =>
                \A i, j \in Consumed(h) :
                    (/\ i < j
                     /\ published[i].kind = "invalid"
                     /\ WellFormed(published[j])
                     /\ Matches(ticker_filter[h], published[j].ticker[1]))
                    => (j \in SeqsOf(outbox[h]) /\ i \notin SeqsOf(outbox[h])))
    /\ [][\A h \in Conns :
            (/\ Took(h)
             /\ Head(queue[h]).type = "message"
             /\ Head(queue[h]).data.kind = "invalid")
            => /\ pc'[h] = "listening"
               /\ outbox' = outbox
               /\ send_failed' = send_failed
               /\ active_connections' = active_connections]_vars

\* An invalid payload, then a matching event: the connection has taken both
\* and received the second.
C8_Witness ==
    \E h \in Conns :
        /\ pc[h] = "listening" /\ Registered(h)
        /\ published = <<[kind |-> "invalid", ticker |-> <<>>], AaplEvent>>
        /\ Consumed(h) = {1, 2}
        /\ outbox[h] = <<[seq |-> 2, data |-> AaplEvent]>>

\* ------------------------------------------------------------------------
\* C9
\* ------------------------------------------------------------------------
\* C9: an event that is a JSON object without a ticker reaches no
\* connection.
C9_NoSymbolDropped ==
    \A h \in Conns :
        \A i \in DOMAIN outbox[h] : outbox[h][i].data.ticker # <<>>

\* ------------------------------------------------------------------------
\* C10
\* ------------------------------------------------------------------------
\* C10: a coroutine that met an exception (accepting, subscribing or
\* listening) has called websocket.close with code 1011, has left the
\* listen loop for its cleanup and does not subscribe again; a coroutine
\* that ended by WebSocketDisconnect has not called close.
C10_UpstreamFailureSurfaced ==
    \A h \in Conns :
        /\ exit_by[h] = "error" => close_code[h] = 1011
        /\ exit_by[h] = "disconnect" => close_code[h] = 0
        /\ exit_by[h] # "none" => pc[h] \in {"cleanup", "done"}
        /\ pc[h] = "done" => pubsub[h] # "subscribed"

\* One connection ended by a failure of its listen after receiving an event,
\* the other by a client disconnect.
C10_Witness ==
    \E h, g \in Conns :
        /\ pc[h] = "done" /\ exit_by[h] = "error" /\ Len(outbox[h]) > 0
        /\ close_code[h] = 1011 /\ pubsub[h] = "closed"
        /\ pc[g] = "done" /\ exit_by[g] = "disconnect" /\ close_code[g] = 0

\* ------------------------------------------------------------------------
\* C11
\* ------------------------------------------------------------------------
\* The subscriptions to quotes.realtime that are open: every coroutine of
\* websocket_endpoint subscribes with a client of its own (lines 132-134).
OpenSubscriptions == {h \in Conns : pubsub[h] = "subscribed"}

\* C11: in every reachable state at most one subscription to
\* quotes.realtime is open, whatever the number of connected subscribers.
C11_SingleUpstreamSubscription == Cardinality(OpenSubscriptions) <= 1

\* ------------------------------------------------------------------------
\* C12
\* ------------------------------------------------------------------------
\* The relay state of a coroutine of websocket_endpoint: Subscribing between
\* the registration and the subscribe, Listening in the loop, Draining once
\* the loop is left with the subscription still open, Disconnected when no
\* subscription is open.
RelayState(h) ==
    IF pc[h] = "listening" THEN "Listening"
    ELSE IF pc[h] = "registered" THEN "Subscribing"
    ELSE IF pc[h] = "cleanup" /\ pubsub[h] = "subscribed" THEN "Draining"
    ELSE "Disconnected"

\* The moves of the state machine as the claim gives them.
ClaimedMoves ==
    { <<"Disconnected", "Subscribing">>, <<"Subscribing", "Listening">>,
      <<"Listening", "Disconnected">>, <<"Listening", "Draining">>,
      <<"Draining", "Disconnected">> }

\* The moves of the coroutine: a failed subscribe goes back to Disconnected,
\* and the loop is never left straight to Disconnected.
HandlerMoves ==
    { <<"Disconnected", "Subscribing">>, <<"Subscribing", "Listening">>,
      <<"Subscribing", "Disconnected">>, <<"Listening", "Draining">>,
      <<"Draining", "Disconnected">> }

\* While Draining nothing is taken from upstream and nothing is pushed.
DrainingTakesNothing(h) ==
    (RelayState(h) = "Draining" /\ RelayState(h)' = "Draining")
    => /\ outbox'[h] = outbox[h]
       /\ send_failed'[h] = send_failed[h]
       /\ Len(queue'[h]) >= Len(queue[h])

\* A message taken in the loop is settled (pushed, failed or filtered) in the
\* same turn, with the subscription and the Redis client still held.
FanOutBeforeRelease(h) ==
    /\ Took(h) => /\ pubsub'[h] = "subscribed" /\ redis_client'[h]
                  /\ RelayState(h)' = "Listening"
    /\ pubsub[h] = "subscribed" /\ pubsub'[h] # "subscribed"
       => /\ RelayState(h) = "Draining"
          /\ outbox'[h] = outbox[h] /\ send_failed'[h] = send_failed[h]
          /\ ~redis_client'[h] /\ ~Registered(h)'

redis_get(st, key) ==
    IF key \notin DOMAIN st \/ st[key] = Nil THEN Nil ELSE st[key].val

\* get without its try: the exceptions of the body reach the caller.
get_unguarded(st, key, backend_ok) ==
    IF ~backend_ok THEN [ret |-> Absent, exc |-> "ConnectionError"]
    ELSE LET value == redis_get(st, key)
         IN  IF value = Nil \/ ~truthy_bytes(value)
             THEN [ret |-> Absent, exc |-> "none"]
             ELSE IF decodable(value)
                  THEN [ret |-> <<decode(value)>>, exc |-> "none"]
                  ELSE [ret |-> Absent, exc |-> "UnicodeDecodeError"]

\* get, lines 30-50.  backend_ok = FALSE: self.redis.get raises.  Whatever
\* the body raises is caught and None is returned.
get(st, key, backend_ok) ==
    IF ~backend_ok THEN [ret |-> Absent, exc |-> "none"]
    ELSE LET value == redis_get(st, key)
         IN  IF value = Nil \/ ~truthy_bytes(value)
             THEN [ret |-> Absent, exc |-> "none"]
             ELSE IF decodable(value)
                  THEN [ret |-> <<decode(value)>>, exc |-> "none"]
                  ELSE [ret |-> Absent, exc |-> "none"]

\* ttl or self.default_ttl
effective_ttl(ttl) == IF ttl = <<>> \/ ttl = <<0>> THEN default_ttl ELSE ttl[1]

\* set without its try: the exception of setex reaches the caller.
set_unguarded(st, key, value, ttl, backend_ok) ==
    IF backend_ok
    THEN [store |-> [st EXCEPT ![key] = [val |-> encode(value),
                                         ttl |-> effective_ttl(ttl)]],
          ret |-> TRUE, exc |-> "none"]
    ELSE [store |-> st, ret |-> FALSE, exc |-> "ConnectionError"]

\* set, lines 52-76: setex with the effective ttl; True, or False when the
\* backend raises.
set(st, key, value, ttl, backend_ok) ==
    IF backend_ok
    THEN [store |-> [st EXCEPT ![key] = [val |-> encode(value),
                                         ttl |-> effective_ttl(ttl)]],
          ret |-> TRUE, exc |-> "none"]
    ELSE [store |-> st, ret |-> FALSE, exc |-> "none"]

\* delete, lines 78-94: True when the key was there.
delete(st, key, backend_ok) ==
    IF backend_ok
    THEN [store |-> [st EXCEPT ![key] = Nil], ret |-> st[key] # Nil,
          exc |-> "none"]
    ELSE [store |-> st, ret |-> FALSE, exc |-> "none"]

\* Redis glob matching of scan_iter(match=pattern): * is any run of
\* characters, ? is any one character, every other character is itself.
RECURSIVE glob(_, _)
glob(p, s) ==
    IF p = <<>> THEN s = <<>>
    ELSE IF Head(p) = "*"
         THEN glob(Tail(p), s) \/ (s # <<>> /\ glob(p, Tail(s)))
         ELSE /\ s # <<>>
              /\ Head(p) = "?" \/ Head(p) = Head(s)
              /\ glob(Tail(p), Tail(s))

\* The keys scan_iter yields.
scan_iter(st, pattern) == {k \in DOMAIN st : st[k] # Nil /\ glob(pattern, k)}

\* Redis DEL: removes the keys it holds and answers how many it removed.
redis_delete(st, keys) ==
    [store   |-> [k \in DOMAIN st |-> IF k \in keys THEN Nil ELSE st[k]],
     deleted |-> Cardinality({k \in keys : st[k] # Nil})]

\* invalidate_pattern answering the number of keys it scanned.
invalidated_scanned(keys, deleted) == Cardinality(keys)

\* What invalidate_pattern returns after its delete, lines 112-114.
invalidated(keys, deleted) == deleted

\* The record of the last set, once the keys ks are written or removed by
\* something else.
forget(ls, ks) == IF ls # Nil /\ ls.key \in ks THEN Nil ELSE ls

\* One second passes: Redis drops the entries whose time is over.
Tick ==
    /\ \E k \in CacheKeys : store[k] # Nil
    /\ store' = [k \in DOMAIN store |->
                    IF store[k] = Nil \/ store[k].ttl = 1 THEN Nil
                    ELSE [store[k] EXCEPT !.ttl = @ - 1]]
    /\ last_set' = IF last_set = Nil
                      \/ last_set.age = effective_ttl(last_set.ttl)
                   THEN last_set
                   ELSE [last_set EXCEPT !.age = @ + 1]
    /\ cache_ret' = Nil
    /\ UNCHANGED <<scan, ws_vars, reader, lis_vars, origin, read_ret>>

\* Another client of the same Redis writes bytes b under key k.
ForeignWrite(k, b) ==
    /\ store' = [store EXCEPT ![k] = [val |-> b, ttl |-> 2]]
    /\ last_set' = forget(last_set, {k})
    /\ cache_ret' = Nil
    /\ UNCHANGED <<scan, ws_vars, reader, lis_vars, origin, read_ret>>

\* A call of CacheService.get.
CacheGet(k, backend_ok) ==
    /\ cache_ret' = [op |-> "get", key |-> k, ok |-> backend_ok,
                     ret |-> get(store, k, backend_ok).ret,
                     exc |-> get(store, k, backend_ok).exc]
    /\ UNCHANGED <<store, last_set, scan, ws_vars, reader, lis_vars, origin, read_ret>>

\* A call of CacheService.set.
CacheSet(k, value, ttl, backend_ok) ==
    /\ store' = set(store, k, value, ttl, backend_ok).store
    /\ last_set' = IF backend_ok
                   THEN [key |-> k, value |-> value, ttl |-> ttl, age |-> 0]
                   ELSE last_set
    /\ cache_ret' = [op |-> "set", key |-> k, ok |-> backend_ok,
                     ret |-> set(store, k, value, ttl, backend_ok).ret,
                     exc |-> set(store, k, value, ttl, backend_ok).exc]
    /\ UNCHANGED <<scan, ws_vars, reader, lis_vars, origin, read_ret>>

\* A call of CacheService.delete.
CacheDelete(k, backend_ok) ==
    /\ store' = delete(store, k, backend_ok).store
    /\ last_set' = IF backend_ok THEN forget(last_set, {k}) ELSE last_set
    /\ cache_ret' = [op |-> "delete", key |-> k, ok |-> backend_ok,
                     ret |-> delete(store, k, backend_ok).ret,
                     exc |-> delete(store, k, backend_ok).exc]
    /\ UNCHANGED <<scan, ws_vars, reader, lis_vars, origin, read_ret>>

\* invalidate_pattern up to its await of redis.delete, lines 106-112: the
\* scan collects the matching keys; the call returns 0 when the scan raises
\* or yields nothing.
InvalidateScan(pattern, backend_ok) ==
    /\ scan = Nil
    /\ LET keys == scan_iter(store, pattern)
       IN  IF backend_ok /\ keys # {}
           THEN /\ scan' = [pattern |-> pattern, keys |-> keys]
                /\ cache_ret' = Nil
           ELSE /\ scan' = Nil
                /\ cache_ret' = [op |-> "invalidate", key |-> pattern,
                                 ok |-> backend_ok, scanned |-> {},
                                 ret |-> 0, exc |-> "none"]
    /\ UNCHANGED <<store, last_set, ws_vars, reader, lis_vars, origin, read_ret>>

\* invalidate_pattern from its redis.delete on, lines 112-118: the scanned
\* keys are deleted and the count of DEL is returned, 0 when DEL raises.
InvalidateDelete(backend_ok) ==
    /\ scan # Nil
    /\ LET r == redis_delete(store, scan.keys)
       IN  /\ store' = IF backend_ok THEN r.store ELSE store
           /\ last_set' = IF backend_ok THEN forget(last_set, scan.keys)
                          ELSE last_set
           /\ cache_ret' = [op |-> "invalidate", key |-> scan.pattern,
                            ok |-> backend_ok, scanned |-> scan.keys,
                            ret |-> IF backend_ok
                                    THEN invalidated(scan.keys, r.deleted)
                                    ELSE 0,
                            exc |-> "none"]
    /\ scan' = Nil
    /\ UNCHANGED <<ws_vars, reader, lis_vars, origin, read_ret>>

\* The keys the calls of get, set and delete are made on.
GetSetKeys == {make_latest_key(AAPL), capacity_key(AAPL)}

CacheNext ==
    \/ Tick
    \/ \E k \in GetSetKeys : ForeignWrite(k, Undecodable)
    \/ \E k \in GetSetKeys, ok \in BOOLEAN : CacheGet(k, ok)
    \/ \E k \in GetSetKeys, v \in Texts, t \in TtlArgs, ok \in BOOLEAN :
          CacheSet(k, v, t, ok)
    \/ \E k \in GetSetKeys, ok \in BOOLEAN : CacheDelete(k, ok)

\* get, set and delete on two keys while time passes.
SpecCache == Init /\ [][CacheNext]_vars

InvalidateNext ==
    \/ Tick
    \/ \E k \in CacheKeys, t \in {<<1>>, <<2>>} :
          CacheSet(k, [chars |-> <<"a">>], t, TRUE)
    \/ \E p \in Patterns, ok \in BOOLEAN : InvalidateScan(p, ok)
    \/ \E ok \in BOOLEAN : InvalidateDelete(ok)

\* invalidate_pattern next to a writer, while time passes.
SpecInvalidate == Init /\ [][InvalidateNext]_vars

\* ------------------------------------------------------------------------
\* Schemas and JSON (schemas.py)
\* ------------------------------------------------------------------------
\* A JSON text is [json |-> doc], doc being the object it denotes; every
\* other text is not JSON.  Scores and confidences are in hundredths.
json_dumps(doc) == [json |-> doc]

is_json(text) == "json" \in DOMAIN text

json_loads(text) == text.json

\* The payload the capacity listener caches for a score.
CapacityRecord(score) ==
    [score |-> score, confidence |-> 92,
     last_updated |-> "2026-02-10T13:00:00Z", model_version |-> "1.0.0"]

\* A payload without its confidence.
IncompleteRecord ==
    [score |-> 85, last_updated |-> "2026-02-10T13:00:00Z",
     model_version |-> "1.0.0"]

NotJson == [chars |-> <<"x">>]

\* CapacityContext(**d) validates: the four fields are there, score and
\* confidence are within [0, 1].
valid_context(d) ==
    /\ {"score", "confidence", "last_updated", "model_version"}
          \subseteq DOMAIN d
    /\ d.score \in 0..100
    /\ d.confidence \in 0..100

CapacityContext(d) ==
    [score |-> d.score, confidence |-> d.confidence,
     last_updated |-> d.last_updated, model_version |-> d.model_version]

\* QuoteResponse.model_dump_json; price stands for the price fields.
model_dump_json(quote) ==
    json_dumps([ticker |-> quote.ticker, price |-> quote.price,
                capacity_context |-> quote.capacity_context])

\* QuoteResponse.model_validate_json raises unless the text is the JSON of
\* a quote whose capacity context, when there is one, validates.
validates_as_quote(text) ==
    /\ is_json(text)
    /\ {"ticker", "price", "capacity_context"} \subseteq DOMAIN text.json
    /\ \A i \in DOMAIN text.json.capacity_context :
          valid_context(text.json.capacity_context[i])

model_validate_json(text) ==
    [ticker |-> json_loads(text).ticker, price |-> json_loads(text).price,
     capacity_context |->
        [i \in DOMAIN json_loads(text).capacity_context |->
            CapacityContext(json_loads(text).capacity_context[i])]]

\* ------------------------------------------------------------------------
\* QuoteRepository (repository/quote_repository.py)
\* ------------------------------------------------------------------------
\* get_latest: the quote of the symbol, None when the origin has none and
\* when the query raises (db_ok = FALSE).
repository_get_latest(org, ticker, db_ok) ==
    IF db_ok /\ upper(ticker) \in DOMAIN org /\ org[upper(ticker)] # Absent
    THEN <<[ticker |-> upper(ticker), price |-> org[upper(ticker)][1],
            capacity_context |-> Absent]>>
    ELSE Absent

\* get_batch: the quotes of those symbols the origin has, [] when the query
\* raises.
repository_get_batch(org, tks, db_ok) ==
    {repository_get_latest(org, tks[i], db_ok)[1] :
        i \in {j \in DOMAIN tks :
                 repository_get_latest(org, tks[j], db_ok) # Absent}}

\* ------------------------------------------------------------------------
\* QuoteService (services/quote_service.py)
\* ------------------------------------------------------------------------
\* _enrich_with_capacity, lines 229-249: the quote with the context of the
\* cached record; the quote as it is when there is no record, when
\* json.loads raises and when CapacityContext raises.
enrich_with_capacity(st, quote, cache_ok) ==
    LET capacity_data == get(st, capacity_key(quote.ticker), cache_ok).ret
    IN  IF capacity_data = Absent THEN quote
        ELSE IF ~is_json(capacity_data[1]) THEN quote
        ELSE IF ~valid_context(json_loads(capacity_data[1])) THEN quote
        ELSE [quote EXCEPT !.capacity_context =
                <<CapacityContext(json_loads(capacity_data[1]))>>]

\* get_latest that asks the origin first.
get_latest_origin_first(st, org, ticker, ok) ==
    LET cache_key == make_latest_key(upper(ticker))
        found     == repository_get_latest(org, upper(ticker), ok.db)
        quote     == enrich_with_capacity(st, found[1], ok.enrich)
    IN  IF found # Absent
        THEN [ret |-> <<quote>>,
              store |-> set(st, cache_key, model_dump_json(quote),
                            <<default_ttl>>, ok.set).store,
              calls |-> <<"repository.get_latest", "cache.get",
                          "cache.set">>,
              exc |-> "none"]
        ELSE [ret |-> Absent, store |-> st,
              calls |-> <<"repository.get_latest">>, exc |-> "none"]

\* get_latest, lines 39-78.  ok tells which of the calls to the cache and
\* to the origin work: ok.get (the lookup of the quote), ok.enrich (the
\* lookup of the record), ok.db (the query) and ok.set (the write).  calls
\* lists the calls made to the cache and to the repository, in order.
get_latest(st, org, ticker, ok) ==
    LET cache_key == make_latest_key(upper(ticker))
        cached    == get(st, cache_key, ok.get).ret
        hit       == /\ cached # Absent
                     /\ truthy(cached[1])
                     /\ validates_as_quote(cached[1])
        found     == repository_get_latest(org, upper(ticker), ok.db)
        quote     == enrich_with_capacity(st, found[1], ok.enrich)
    IN  IF hit
        THEN [ret |-> <<enrich_with_capacity(
                          st, model_validate_json(cached[1]), ok.enrich)>>,
              store |-> st,
              calls |-> <<"cache.get", "cache.get">>,
              exc |-> "none"]
        ELSE IF found # Absent
        THEN [ret |-> <<quote>>,
              store |-> set(st, cache_key, model_dump_json(quote),
                            <<default_ttl>>, ok.set).store,
              calls |-> <<"cache.get", "repository.get_latest",
                          "cache.get", "cache.set">>,
              exc |-> set(st, cache_key, model_dump_json(quote),
                          <<default_ttl>>, ok.set).exc]
        ELSE [ret |-> Absent, store |-> st,
              calls |-> <<"cache.get", "repository.get_latest">>,
              exc |-> "none"]

\* A BatchQuoteItem of a symbol that is missing, without its error.
missing_item_silent(ticker) ==
    [ticker |-> ticker, quote |-> Absent, error |-> Absent]

\* The BatchQuoteItem of a symbol the origin has no quote for, lines 184-189.
missing_item(ticker) ==
    [ticker |-> ticker, quote |-> Absent, error |-> <<"Ticker not found">>]

\* The BatchQuoteItem of a symbol that was found, lines 167-171.
found_item(ticker, quote) ==
    [ticker |-> ticker, quote |-> <<quote>>, error |-> Absent]

\* The loop of get_batch, lines 161-189, over the symbols tks still to do.
RECURSIVE batch_loop(_, _, _, _)
batch_loop(acc, found_quotes, tks, ok) ==
    IF tks = <<>> THEN acc
    ELSE LET ticker == Head(tks)
             hits   == {q \in found_quotes : q.ticker = ticker}
             quote  == enrich_with_capacity(acc.store, CHOOSE q \in hits : TRUE,
                                            ok.enrich)
         IN  IF hits # {}
             THEN batch_loop(
                    [items |-> Append(acc.items, found_item(ticker, quote)),
                     successful |-> acc.successful + 1,
                     failed |-> acc.failed,
                     store |-> set(acc.store, make_latest_key(ticker),
                                   model_dump_json(quote), <<default_ttl>>,
                                   ok.set).store,
                     calls |-> acc.calls \o <<"cache.get", "cache.set">>],
                    found_quotes, Tail(tks), ok)
             ELSE batch_loop(
                    [acc EXCEPT !.items = Append(@, missing_item(ticker)),
                                !.failed = @ + 1],
                    found_quotes, Tail(tks), ok)

\* get_batch, lines 135-196: one query for all the symbols, then one item
\* per symbol; the quotes found are enriched and cached.
get_batch(st, org, request_tickers, ok) ==
    LET upper_tickers == [i \in DOMAIN request_tickers |->
                             upper(request_tickers[i])]
        found_quotes == repository_get_batch(org, upper_tickers, ok.db)
        r == batch_loop([items |-> <<>>, successful |-> 0, failed |-> 0,
                         store |-> st,
                         calls |-> <<"repository.get_batch">>],
                        found_quotes, upper_tickers, ok)
    IN  [ret |-> [quotes |-> r.items, total |-> Len(upper_tickers),
                  successful |-> r.successful, failed |-> r.failed],
         store |-> r.store, calls |-> r.calls, exc |-> "none"]

\* CacheService.history_ttl
history_ttl == 60

\* QuoteRepository.get_history, lines 70-150: the buckets of the symbol's
\* quotes between the two dates, [] when there are none and when the query
\* raises (db_ok = FALSE).  The quote the origin holds is of day 1 and makes
\* one bucket at every interval.
repository_get_history(org, ticker, start_date, end_date, interval, db_ok) ==
    IF /\ db_ok
       /\ ticker \in DOMAIN org
       /\ org[ticker] # Absent
       /\ start_date <= 1
       /\ 1 <= end_date
    THEN <<[close |-> org[ticker][1]]>>
    ELSE <<>>

\* HistoryResponse(ticker=..., interval=..., data=..., count=len(data)).
HistoryResponse(ticker, interval, data_points) ==
    [ticker |-> ticker, interval |-> interval, data |-> data_points,
     count |-> Len(data_points)]

\* HistoryResponse.model_dump_json
history_dump_json(response) == json_dumps(response)

\* HistoryResponse.model_validate_json raises unless the text is the JSON
\* of a history response.
validates_as_history(text) ==
    /\ is_json(text)
    /\ {"ticker", "interval", "data", "count"} \subseteq DOMAIN text.json

history_validate_json(text) ==
    [ticker |-> json_loads(text).ticker,
     interval |-> json_loads(text).interval,
     data |-> json_loads(text).data, count |-> json_loads(text).count]

\* get_history, lines 80-133: the cached response when there is one that
\* validates; otherwise the response built from the repository's rows,
\* which is cached for history_ttl seconds whatever the rows are.
get_history(st, org, request, ok) ==
    LET ticker      == upper(request.ticker)
        cache_key   == make_history_key(ticker,
                                        isoformat(request.start_date),
                                        isoformat(request.end_date),
                                        request.interval)
        cached      == get(st, cache_key, ok.get).ret
        hit         == /\ cached # Absent
                       /\ truthy(cached[1])
                       /\ validates_as_history(cached[1])
        data_points == repository_get_history(org, ticker,
                                              request.start_date,
                                              request.end_date,
                                              request.interval, ok.db)
        response    == HistoryResponse(ticker, request.interval, data_points)
        written     == set(st, cache_key, history_dump_json(response),
                           <<history_ttl>>, ok.set)
    IN  IF hit
        THEN [ret |-> history_validate_json(cached[1]), store |-> st,
              calls |-> <<"cache.get">>, exc |-> "none"]
        ELSE [ret |-> response, store |-> written.store,
              calls |-> <<"cache.get", "repository.get_history",
                          "cache.set">>,
              exc |-> written.exc]

\* CapacitySubscriber.cache_ttl
cache_ttl == 3600

\* The symbols of the requests; ZZZZ is never at the origin.
ZZZZ == <<"Z", "Z", "Z", "Z">>

RequestTickers == {<<"a", "a", "p", "l">>, MSFT, ZZZZ}

\* The symbol lists of the batch requests: distinct symbols (what
\* BatchRequest.validate_tickers ensures); get_batch uppercases them itself.
BatchRequests ==
    { <<AAPL, ZZZZ>>, <<ZZZZ, <<"a", "a", "p", "l">>, MSFT>>, <<MSFT>> }

\* Which calls to the cache and to the origin work during one read.
AllOk == [get |-> TRUE, enrich |-> TRUE, db |-> TRUE, set |-> TRUE]

Outages ==
    { AllOk, [AllOk EXCEPT !.get = FALSE], [AllOk EXCEPT !.enrich = FALSE],
      [AllOk EXCEPT !.db = FALSE], [AllOk EXCEPT !.set = FALSE] }

\* The cache backend is down for every call.
CacheDown == [get |-> FALSE, enrich |-> FALSE, db |-> TRUE, set |-> FALSE]

\* The scores the capacity channel sends, in hundredths; 150 is out of range.
Scores == {85, 40, 150}

\* The ingestion writes a quote of symbol t at price p into the origin.
OriginUpdate(t, p) ==
    /\ origin' = [origin EXCEPT ![t] = <<p>>]
    /\ UNCHANGED <<cache_vars, read_ret, ws_vars, reader, lis_vars>>

\* The capacity listener caches a score for symbol t:
\* setex("capacity:score:<t>", cache_ttl, json.dumps(payload)).
EnrichmentWrite(t, score) ==
    /\ store' = [store EXCEPT ![capacity_key(t)] =
                    [val |-> encode(json_dumps(CapacityRecord(score))),
                     ttl |-> cache_ttl]]
    /\ UNCHANGED <<last_set, scan, cache_ret, origin, read_ret, ws_vars, reader, lis_vars>>

\* The time of the entry under key k is over.
Expire(k) ==
    /\ store[k] # Nil
    /\ store' = [store EXCEPT ![k] = Nil]
    /\ UNCHANGED <<last_set, scan, cache_ret, origin, read_ret, ws_vars, reader, lis_vars>>

\* A call of QuoteService.get_latest.
ReadLatest(ticker, ok) ==
    /\ read_ret = Nil
    /\ store' = get_latest(store, origin, ticker, ok).store
    /\ read_ret' = [op |-> "get_latest", ticker |-> ticker, ok |-> ok,
                    ret |-> get_latest(store, origin, ticker, ok).ret,
                    calls |-> get_latest(store, origin, ticker, ok).calls,
                    exc |-> get_latest(store, origin, ticker, ok).exc]
    /\ UNCHANGED <<last_set, scan, cache_ret, origin, ws_vars, reader, lis_vars>>

\* A call of QuoteService.get_batch.
ReadBatch(request_tickers, ok) ==
    /\ read_ret = Nil
    /\ store' = get_batch(store, origin, request_tickers, ok).store
    /\ read_ret' = [op |-> "get_batch", ticker |-> request_tickers,
                    ok |-> ok,
                    ret |-> get_batch(store, origin, request_tickers, ok).ret,
                    calls |-> get_batch(store, origin, request_tickers,
                                        ok).calls,
                    exc |-> get_batch(store, origin, request_tickers, ok).exc]
    /\ UNCHANGED <<last_set, scan, cache_ret, origin, ws_vars, reader, lis_vars>>

\* The answer has been sent to the client.
Respond ==
    /\ read_ret # Nil
    /\ read_ret' = Nil
    /\ UNCHANGED <<cache_vars, origin, ws_vars, reader, lis_vars>>

ReadNext ==
    \/ \E p \in {1, 2} : OriginUpdate(AAPL, p)
    \/ OriginUpdate(MSFT, 1)
    \/ \E s \in Scores : EnrichmentWrite(AAPL, s)
    \/ \E k \in CacheKeys : Expire(k)
    \/ \E b \in {Undecodable, encode(NotJson),
                 encode(json_dumps(IncompleteRecord))} :
          ForeignWrite(capacity_key(AAPL), b)
    \/ ForeignWrite(make_latest_key(AAPL), encode(NotJson))
    \/ \E t \in RequestTickers, ok \in Outages : ReadLatest(t, ok)
    \/ \E r \in BatchRequests, ok \in Outages : ReadBatch(r, ok)
    \/ Respond

\* Reads of the service while the origin, the records and the cache change.
SpecRead == Init /\ [][ReadNext]_vars

\* A call of QuoteService.get_history.
ReadHistory(request, ok) ==
    /\ read_ret = Nil
    /\ store' = get_history(store, origin, request, ok).store
    /\ read_ret' = [op |-> "get_history", ticker |-> request.ticker,
                    request |-> request, ok |-> ok,
                    ret |-> get_history(store, origin, request, ok).ret,
                    calls |-> get_history(store, origin, request, ok).calls,
                    exc |-> get_history(store, origin, request, ok).exc]
    /\ UNCHANGED <<last_set, scan, cache_ret, origin, ws_vars, reader, lis_vars>>

\* The quotes of a symbol leave the origin (retention).
OriginDrop(t) ==
    /\ origin[t] # Absent
    /\ origin' = [origin EXCEPT ![t] = Absent]
    /\ UNCHANGED <<cache_vars, read_ret, ws_vars, reader, lis_vars>>

HistoryNext ==
    \/ \E p \in {1, 2} : OriginUpdate(AAPL, p)
    \/ OriginDrop(AAPL)
    \/ EnrichmentWrite(AAPL, 85)
    \/ \E k \in HistoryKeys \cup {make_latest_key(AAPL)} : Expire(k)
    \/ \E t \in {<<"a", "a", "p", "l">>, ZZZZ}, ok \in Outages \cup {CacheDown} :
          ReadLatest(t, ok)
    \/ \E r \in HistoryRequests, ok \in Outages \cup {CacheDown} :
          ReadHistory(r, ok)
    \/ Respond

\* Readers of the latest quote and of the history of one symbol, next to the
\* ingestion, the capacity listener and the expiry of the entries.
SpecHistory == Init /\ [][HistoryNext]_vars

\* ------------------------------------------------------------------------
\* CapacitySubscriber (services/capacity_subscriber.py)
\* ------------------------------------------------------------------------
\* Number of messages published on capacity.scoring.
MaxScoring == 3

\* required_fields, line 103.
required_fields ==
    {"ticker", "score", "confidence", "timestamp", "model_version"}

\* The object of a complete capacity.scoring message.
ScoringData(ticker, score) ==
    [ticker |-> ticker, score |-> score, confidence |-> 92,
     timestamp |-> "2026-02-10T13:00:00Z", model_version |-> "1.0.0"]

\* The object d without its field f.
without(d, f) == [g \in DOMAIN d \ {f} |-> d[g]]

\* A pub/sub message of type "message" carrying the text.
ScoringMessage(text) == [type |-> "message", data |-> text]

\* The complete messages of the model: two scores of AAPL, one of MSFT, and
\* one whose ticker is spelled in lower case.
CompleteMessages ==
    { ScoringMessage(json_dumps(ScoringData(AAPL, 85))),
      ScoringMessage(json_dumps(ScoringData(AAPL, 40))),
      ScoringMessage(json_dumps(ScoringData(MSFT, 85))),
      ScoringMessage(json_dumps(ScoringData(<<"a", "a", "p", "l">>, 85))) }

\* The messages that are not JSON or lack one of the required fields.
BrokenMessages ==
    {ScoringMessage(NotJson)}
       \cup { ScoringMessage(json_dumps(without(ScoringData(AAPL, 85), f))) :
                 f \in required_fields }

\* cache_payload that keeps the name the field has in the message.
cache_payload_received(data) ==
    [score |-> data.score, confidence |-> data.confidence,
     timestamp |-> data.timestamp, model_version |-> data.model_version]

\* cache_payload, lines 111-116.
cache_payload(data) ==
    [score |-> data.score, confidence |-> data.confidence,
     last_updated |-> data.timestamp, model_version |-> data.model_version]

\* _process_message without its except clauses.
process_message_unguarded(message) ==
    IF ~is_json(message.data)
    THEN [setex |-> Absent, exc |-> "JSONDecodeError"]
    ELSE LET data == json_loads(message.data)
         IN  IF ~(required_fields \subseteq DOMAIN data)
             THEN [setex |-> Absent, exc |-> "none"]
             ELSE [setex |-> <<[key   |-> capacity_key(data.ticker),
                                ttl   |-> cache_ttl,
                                value |-> json_dumps(cache_payload(data))]>>,
                   exc |-> "none"]

\* _process_message up to its await, lines 99-124: the setex it calls, if
\* any, and the exception that leaves it.  json.JSONDecodeError is caught
\* and logged; a message lacking a required field is logged and dropped.
process_message(message) ==
    IF ~is_json(message.data)
    THEN [setex |-> Absent, exc |-> "none"]
    ELSE LET data == json_loads(message.data)
         IN  IF ~(required_fields \subseteq DOMAIN data)
             THEN [setex |-> Absent, exc |-> "none"]
             ELSE [setex |-> <<[key   |-> capacity_key(data.ticker),
                                ttl   |-> cache_ttl,
                                value |-> json_dumps(cache_payload(data))]>>,
                   exc |-> "none"]

\* Redis SETEX key ttl value.
redis_setex(st, call) ==
    [st EXCEPT ![call.key] = [val |-> encode(call.value), ttl |-> call.ttl]]

\* A message is published on capacity.scoring while the listener is
\* subscribed.
ScoringPublish(m) ==
    /\ scoring_sent < MaxScoring
    /\ subscriber_pubsub = "subscribed"
    /\ scoring_sent' = scoring_sent + 1
    /\ channel' = Append(channel, m)
    /\ UNCHANGED <<task, setex_call, subscriber_pubsub, subscriber_redis,
                   taken, svc_vars, ws_vars, reader>>

\* listen, lines 83-85, and _process_message up to the await of setex: the
\* loop takes the next message.  An exception leaving _process_message
\* would be logged by listen, which then returns (lines 89-90).
ListenerTake ==
    /\ task = "listening"
    /\ channel # <<>>
    /\ channel' = Tail(channel)
    /\ taken' = Append(taken, Head(channel))
    /\ LET m == Head(channel)
           r == process_message(m)
       IN  IF m.type # "message"
           THEN UNCHANGED <<task, setex_call>>
           ELSE IF r.exc # "none"
           THEN task' = "returned" /\ UNCHANGED setex_call
           ELSE IF r.setex = Absent
           THEN UNCHANGED <<task, setex_call>>
           ELSE task' = "writing" /\ setex_call' = r.setex[1]
    /\ UNCHANGED <<subscriber_pubsub, subscriber_redis, scoring_sent,
                   svc_vars, ws_vars, reader>>

\* The awaited setex is over, lines 119-135: the record is written, or the
\* call raised (backend_ok = FALSE, or the client is closed), which is
\* caught and logged; the loop goes on.
ListenerWrite(backend_ok) ==
    /\ task = "writing"
    /\ store' = IF backend_ok /\ subscriber_redis
                THEN redis_setex(store, setex_call)
                ELSE store
    /\ setex_call' = Nil
    /\ task' = "listening"
    /\ UNCHANGED <<channel, subscriber_pubsub, subscriber_redis, scoring_sent,
                   taken, last_set, scan, cache_ret, origin, read_ret,
                   ws_vars, reader>>

\* The task is cancelled: CancelledError is raised at its await and leaves
\* listen (lines 86-88).  A setex in flight has reached Redis or has not
\* (applied).
ListenerCancel(applied) ==
    /\ task \in {"listening", "writing"}
    /\ applied => task = "writing"
    /\ store' = IF applied THEN redis_setex(store, setex_call) ELSE store
    /\ setex_call' = Nil
    /\ task' = "cancelled"
    /\ UNCHANGED <<channel, subscriber_pubsub, subscriber_redis, scoring_sent,
                   taken, last_set, scan, cache_ret, origin, read_ret,
                   ws_vars, reader>>

\* The shutdown of the lifespan (main.py, lines 51-55) calls disconnect,
\* lines 137-146: unsubscribe, close the pubsub, close the client.
ListenerShutdown ==
    /\ subscriber_pubsub = "subscribed"
    /\ subscriber_pubsub' = "closed"
    /\ subscriber_redis' = FALSE
    /\ channel' = <<>>
    /\ UNCHANGED <<task, setex_call, scoring_sent, taken, svc_vars, ws_vars, reader>>

\* pubsub.listen() ends once the pubsub is closed, and listen returns.
ListenerEnd ==
    /\ task = "listening"
    /\ subscriber_pubsub = "closed"
    /\ task' = "returned"
    /\ UNCHANGED <<channel, setex_call, subscriber_pubsub, subscriber_redis,
                   scoring_sent, taken, svc_vars, ws_vars, reader>>

ListenerNext ==
    \/ \E m \in CompleteMessages \cup BrokenMessages : ScoringPublish(m)
    \/ ListenerTake
    \/ \E ok \in BOOLEAN : ListenerWrite(ok)
    \/ \E applied \in BOOLEAN : ListenerCancel(applied)
    \/ ListenerShutdown
    \/ ListenerEnd

\* The capacity listener next to the publisher of capacity.scoring.
SpecListener == Init /\ [][ListenerNext]_vars

JoinNext ==
    \/ \E t \in {AAPL, <<"a", "a", "p", "l">>} :
          ScoringPublish(ScoringMessage(json_dumps(ScoringData(t, 85))))
    \/ ListenerTake
    \/ ListenerWrite(TRUE)
    \/ OriginUpdate(AAPL, 1)
    \/ \E k \in StoreKeys : Expire(k)
    \/ \E t \in {AAPL, <<"a", "a", "p", "l">>} : ReadLatest(t, AllOk)
    \/ Respond

\* The capacity listener and a reader of the latest quote on one Redis.
SpecJoin == Init /\ [][JoinNext]_vars

\* ------------------------------------------------------------------------
\* Concurrent calls of get_latest (services/quote_service.py, lines 39-78)
\* ------------------------------------------------------------------------
\* Caller c calls get_latest(ticker): lines 49-50, up to the first await.
CallStart(c, ticker) ==
    /\ reader[c].pc = "idle"
    /\ reader' = [reader EXCEPT
                     ![c] = [@ EXCEPT !.pc = "get",
                                      !.ticker = upper(ticker),
                                      !.cache_key =
                                          make_latest_key(upper(ticker))]]
    /\ UNCHANGED <<svc_vars, lis_vars, ws_vars>>

\* await self.cache.get(cache_key) is over, lines 53-61: on a hit that
\* validates the quote goes to the enrichment, else the origin is asked.
CallCacheGet(c) ==
    /\ reader[c].pc = "get"
    /\ LET cached == get(store, reader[c].cache_key, TRUE).ret
           hit    == /\ cached # Absent
                     /\ truthy(cached[1])
                     /\ validates_as_quote(cached[1])
       IN  reader' = [reader EXCEPT
                        ![c] = [@ EXCEPT
                                  !.pc = IF hit THEN "enrich_hit"
                                         ELSE "query",
                                  !.quote = IF hit
                                            THEN <<model_validate_json(
                                                      cached[1])>>
                                            ELSE <<>>,
                                  !.calls = Append(@, "cache.get")]]
    /\ UNCHANGED <<svc_vars, lis_vars, ws_vars>>

\* await self.repository.get_latest(ticker) is over, lines 64-78.
CallQuery(c) ==
    /\ reader[c].pc = "query"
    /\ LET found == repository_get_latest(origin, reader[c].ticker, TRUE)
       IN  reader' = [reader EXCEPT
                        ![c] = [@ EXCEPT
                                  !.pc = IF found = Absent THEN "done"
                                         ELSE "enrich",
                                  !.quote = found,
                                  !.calls = Append(@,
                                               "repository.get_latest")]]
    /\ UNCHANGED <<svc_vars, lis_vars, ws_vars>>

\* await self._enrich_with_capacity(quote) is over, lines 57 and 68.
CallEnrich(c) ==
    /\ reader[c].pc \in {"enrich", "enrich_hit"}
    /\ LET quote == enrich_with_capacity(store, reader[c].quote[1], TRUE)
       IN  reader' = [reader EXCEPT
                        ![c] = [@ EXCEPT
                                  !.pc = IF @ = "enrich" THEN "set"
                                         ELSE "done",
                                  !.quote = <<quote>>,
                                  !.ret = IF reader[c].pc = "enrich"
                                          THEN <<>> ELSE <<quote>>,
                                  !.calls = Append(@, "cache.get")]]
    /\ UNCHANGED <<svc_vars, lis_vars, ws_vars>>

\* await self.cache.set(...) is over, lines 70-76, and the quote is returned.
CallSet(c) ==
    /\ reader[c].pc = "set"
    /\ store' = set(store, reader[c].cache_key,
                    model_dump_json(reader[c].quote[1]),
                    <<default_ttl>>, TRUE).store
    /\ reader' = [reader EXCEPT
                     ![c] = [@ EXCEPT !.pc = "done",
                                      !.ret = reader[c].quote,
                                      !.calls = Append(@, "cache.set")]]
    /\ UNCHANGED <<last_set, scan, cache_ret, origin, read_ret, lis_vars,
                   ws_vars>>

ConcurrentNext ==
    \/ \E p \in {1, 2} : OriginUpdate(AAPL, p)
    \/ EnrichmentWrite(AAPL, 85)
    \/ CallStart(1, <<"a", "a", "p", "l">>)
    \/ CallStart(2, AAPL)
    \/ \E c \in Callers : CallCacheGet(c)
    \/ \E c \in Callers : CallQuery(c)
    \/ \E c \in Callers : CallEnrich(c)
    \/ \E c \in Callers : CallSet(c)

\* Two calls of get_latest for one symbol, interleaved at their awaits, next
\* to the ingestion and to the capacity listener.
SpecConcurrent == Init /\ [][ConcurrentNext]_vars

\* ------------------------------------------------------------------------
\* C13
\* ------------------------------------------------------------------------
\* The last call was a get.
GetReturned == cache_ret # Nil /\ cache_ret.op = "get"

\* C13: get raises nothing; it returns None when the key is missing or has
\* expired, when the stored bytes are not UTF-8 and when the backend raises,
\* and in these three cases what the caller has in hand is the same; on a
\* working backend a non-empty decodable value is returned decoded.
C13_GetNeverRaises ==
    GetReturned =>
        LET e == store[cache_ret.key]
        IN  /\ cache_ret.exc = "none"
            /\ e = Nil => cache_ret.ret = Absent
            /\ (e # Nil /\ ~decodable(e.val)) => cache_ret.ret = Absent
            /\ ~cache_ret.ok => cache_ret.ret = Absent
            /\ (cache_ret.ok /\ e # Nil /\ decodable(e.val)
                  /\ truthy_bytes(e.val))
               => cache_ret.ret = <<decode(e.val)>>
            /\ \A k \in GetSetKeys : \A ok \in BOOLEAN :
                  (~ok \/ store[k] = Nil \/ ~decodable(store[k].val))
                  => get(store, k, ok) = [ret |-> Absent, exc |-> "none"]

\* A get of a key that holds bytes that are not UTF-8, on a working backend,
\* has returned None.
C13_Witness ==
    /\ GetReturned
    /\ cache_ret.ok
    /\ store[cache_ret.key] # Nil
    /\ store[cache_ret.key].val = Undecodable
    /\ cache_ret.ret = Absent /\ cache_ret.exc = "none"

\* ------------------------------------------------------------------------
\* C14
\* ------------------------------------------------------------------------
\* The ttl of a set in seconds: the default when the argument is None.
RequestedTtl(ttl) == IF ttl = <<>> THEN default_ttl ELSE ttl[1]

\* C14: a get on a working backend of the key of the last successful set,
\* with no write or removal of the key in between, returns the value that
\* was set when fewer seconds than the ttl have passed since the set, and
\* None when the ttl has passed.
C14_SetThenGet ==
    (GetReturned /\ cache_ret.ok /\ last_set # Nil
        /\ last_set.key = cache_ret.key)
    => IF last_set.age < RequestedTtl(last_set.ttl)
       THEN cache_ret.ret = <<last_set.value>>
       ELSE cache_ret.ret = Absent

\* ------------------------------------------------------------------------
\* C15
\* ------------------------------------------------------------------------
\* The cached keys that match the pattern.
Matching(st, pattern) == {k \in CacheKeys : st[k] # Nil /\ glob(pattern, k)}

\* The last call was an invalidate_pattern.
InvalidateReturned == cache_ret # Nil /\ cache_ret.op = "invalidate"

\* C15: invalidate_pattern scans every cached key that matches the pattern
\* and only those; it removes every scanned key and no other key, and
\* returns the number of keys it removed; it returns 0, removes nothing and
\* raises nothing when no key matches and when the backend fails.
C15_InvalidateRemovesMatching ==
    /\ [](InvalidateReturned =>
            /\ cache_ret.exc = "none"
            /\ ~cache_ret.ok => cache_ret.ret = 0
            /\ cache_ret.scanned = {}
               => /\ cache_ret.ret = 0
                  /\ ~cache_ret.ok \/ Matching(store, cache_ret.key) = {})
    /\ [][/\ (scan = Nil /\ scan' # Nil)
             => /\ scan'.keys = Matching(store, scan'.pattern)
                /\ scan'.keys # {}
                /\ store' = store
          /\ (scan = Nil /\ scan' = Nil /\ InvalidateReturned')
             => store' = store
          /\ (scan # Nil /\ scan' = Nil)
             => /\ InvalidateReturned'
                /\ cache_ret'.key = scan.pattern
                /\ IF cache_ret'.ok
                   THEN /\ \A k \in scan.keys : store'[k] = Nil
                        /\ \A k \in CacheKeys \ scan.keys :
                              store'[k] = store[k]
                        /\ \A k \in CacheKeys :
                              ~glob(scan.pattern, k) => store'[k] = store[k]
                        /\ cache_ret'.ret =
                              Cardinality({k \in CacheKeys :
                                             /\ store[k] # Nil
                                             /\ store'[k] = Nil})
                   ELSE store' = store]_vars

\* invalidate_pattern("quote:*") has removed the two quote keys and returned
\* 2; the capacity key is still cached.
C15_Witness ==
    /\ cache_ret # Nil
    /\ cache_ret.op = "invalidate"
    /\ cache_ret.key = <<"q", "u", "o", "t", "e", ":", "*">>
    /\ cache_ret.ret = 2
    /\ store[make_latest_key(AAPL)] = Nil
    /\ store[make_latest_key(MSFT)] = Nil
    /\ store[capacity_key(AAPL)] # Nil

\* ------------------------------------------------------------------------
\* Vocabulary of the properties of the read service
\* ------------------------------------------------------------------------
\* This step is a call of get_latest, of get_batch.
LatestStep ==
    read_ret = Nil /\ read_ret' # Nil /\ read_ret'.op = "get_latest"

BatchStep ==
    read_ret = Nil /\ read_ret' # Nil /\ read_ret'.op = "get_batch"

\* What the cache holds under the key.
Entry(st, key) == IF key \in DOMAIN st THEN st[key] ELSE Nil

\* The entry holds the JSON of a quote.
Deserializes(e) ==
    e # Nil /\ decodable(e.val) /\ validates_as_quote(decode(e.val))

\* The price of the symbol at the origin: <<>> when it has no quote.
AtOrigin(t) == IF t \in Symbols THEN origin[t] ELSE Absent

Called(r, name) == \E i \in DOMAIN r.calls : r.calls[i] = name

\* ------------------------------------------------------------------------
\* C16
\* ------------------------------------------------------------------------
\* C16: get_latest returns the quote cached under the latest key when that
\* entry deserializes, without a query to the origin and without a write;
\* otherwise it queries the origin; the quote the origin returns is the one
\* get_latest returns, and it has been set under the latest key with a ttl
\* of 5 seconds when get_latest returns (the entry is there unless the
\* cache refused the write); when the origin has no quote get_latest
\* returns None and writes nothing.
C16_CacheAside ==
    [][LatestStep =>
        LET r   == read_ret'
            t   == upper(r.ticker)
            key == make_latest_key(t)
            e   == Entry(store, key)
        IN  /\ r.exc = "none"
            /\ r.calls[1] = "cache.get"
            /\ IF r.ok.get /\ Deserializes(e)
               THEN /\ r.ret # Absent
                    /\ r.ret[1].ticker = decode(e.val).json.ticker
                    /\ r.ret[1].price = decode(e.val).json.price
                    /\ ~Called(r, "repository.get_latest")
                    /\ ~Called(r, "cache.set")
                    /\ store' = store
               ELSE /\ Called(r, "repository.get_latest")
                    /\ (r.ok.db /\ AtOrigin(t) # Absent)
                       => /\ r.ret # Absent
                          /\ r.ret[1].ticker = t
                          /\ r.ret[1].price = AtOrigin(t)[1]
                          /\ Called(r, "cache.set")
                          /\ r.ok.set =>
                               store'[key] =
                                 [val |-> encode(model_dump_json(r.ret[1])),
                                  ttl |-> 5]
                          /\ ~r.ok.set => store' = store
                    /\ AtOrigin(t) = Absent
                       => /\ r.ret = Absent
                          /\ ~Called(r, "cache.set")
                          /\ store' = store]_vars

\* get_latest has answered from the cache with the price 1 while the origin
\* holds the price 2: it made two cache lookups and no query.
C16_Witness ==
    /\ read_ret # Nil
    /\ read_ret.op = "get_latest"
    /\ read_ret.calls = <<"cache.get", "cache.get">>
    /\ read_ret.ret # Absent
    /\ read_ret.ret[1].price = 1
    /\ origin[AAPL] = <<2>>

\* ------------------------------------------------------------------------
\* C17
\* ------------------------------------------------------------------------
\* The entry holds a well-formed enrichment record.
WellFormedRecord(e) ==
    /\ e # Nil
    /\ decodable(e.val)
    /\ is_json(decode(e.val))
    /\ valid_context(json_loads(decode(e.val)))

\* C17: the quote a get_latest returns carries a capacity context with the
\* score of the record when a well-formed record of the symbol is cached at
\* the call (and the cache answers the lookup), and carries no capacity
\* context when no record of the symbol is cached at the call; no error is
\* raised.
C17_ContextIffRecord ==
    [][(LatestStep /\ read_ret'.ret # Absent) =>
        LET r   == read_ret'
            rec == Entry(store, capacity_key(upper(r.ticker)))
        IN  /\ r.exc = "none"
            /\ (r.ok.enrich /\ WellFormedRecord(rec))
               => /\ r.ret[1].capacity_context # Absent
                  /\ r.ret[1].capacity_context[1].score
                        = json_loads(decode(rec.val)).score
            /\ rec = Nil => r.ret[1].capacity_context = Absent]_vars

\* ------------------------------------------------------------------------
\* C18
\* ------------------------------------------------------------------------
\* The enrichment step of this call fails: the lookup of the record fails,
\* or the record is not valid JSON, incomplete or out of range.
EnrichmentFails(r) ==
    LET rec == Entry(store, capacity_key(upper(r.ticker)))
    IN  ~r.ok.enrich \/ (rec # Nil /\ ~WellFormedRecord(rec))

\* C18: when the enrichment step of a get_latest fails, no error is raised
\* and the quote returned has no capacity context.
C18_EnrichmentFailureAbsorbed ==
    [][(LatestStep /\ read_ret'.ret # Absent /\ EnrichmentFails(read_ret'))
        => /\ read_ret'.exc = "none"
           /\ read_ret'.ret[1].capacity_context = Absent]_vars

\* ------------------------------------------------------------------------
\* C19
\* ------------------------------------------------------------------------
\* The query of this call returns a quote of symbol t.
FoundAtOrigin(r, t) == r.ok.db /\ AtOrigin(t) # Absent

\* C19: the response of a get_batch over n distinct symbols has one item
\* per requested symbol, in the order of the request; total is n,
\* successful is the number of symbols the origin returned a quote for,
\* failed is n - successful; the item of a symbol found has its quote and no
\* error, the item of a missing symbol has no quote and the error
\* "Ticker not found"; the call raises nothing.
C19_BatchCounts ==
    [][BatchStep =>
        LET r    == read_ret'
            req  == r.ticker
            resp == r.ret
            hits == {i \in DOMAIN req : FoundAtOrigin(r, upper(req[i]))}
        IN  /\ r.exc = "none"
            /\ Len(resp.quotes) = Len(req)
            /\ resp.total = Len(req)
            /\ resp.successful = Cardinality(hits)
            /\ resp.failed = Len(req) - resp.successful
            /\ resp.successful + resp.failed = resp.total
            /\ \A i \in DOMAIN req :
                  /\ resp.quotes[i].ticker = upper(req[i])
                  /\ IF i \in hits
                     THEN /\ resp.quotes[i].quote # Absent
                          /\ resp.quotes[i].quote[1].ticker = upper(req[i])
                          /\ resp.quotes[i].quote[1].price
                                = AtOrigin(upper(req[i]))[1]
                          /\ resp.quotes[i].error = Absent
                     ELSE /\ resp.quotes[i].quote = Absent
                          /\ resp.quotes[i].error = <<"Ticker not found">>]_vars

\* get_batch(["AAPL", "ZZZZ"]) with only AAPL at the origin has answered
\* total 2, successful 1, failed 1.
C19_Witness ==
    /\ read_ret # Nil
    /\ read_ret.op = "get_batch"
    /\ read_ret.ticker = <<AAPL, ZZZZ>>
    /\ read_ret.ret.total = 2
    /\ read_ret.ret.successful = 1
    /\ read_ret.ret.failed = 1
    /\ read_ret.ret.quotes[1].quote # Absent
    /\ read_ret.ret.quotes[2].error = <<"Ticker not found">>

\* ------------------------------------------------------------------------
\* C20
\* ------------------------------------------------------------------------
\* C20: the item of every symbol in the response of a get_batch holds what
\* get_latest returns for that symbol in the state of the call (the same
\* quote, or none), and get_batch looks into the cache before it queries
\* the origin.
C20_BatchAsLatest ==
    [][BatchStep =>
        LET r == read_ret'
        IN  /\ r.calls[1] = "cache.get"
            /\ \A i \in DOMAIN r.ticker :
                  r.ret.quotes[i].quote
                     = get_latest(store, origin, r.ticker[i], r.ok).ret]_vars

\* ------------------------------------------------------------------------
\* C21
\* ------------------------------------------------------------------------
\* What get_latest hands its caller.
Outcome(r) == [ret |-> r.ret, exc |-> r.exc]

\* C21: a get_latest of a symbol the origin has, whose query of the origin
\* failed, does not hand its caller what a get_latest hands it for a symbol the origin does not have.
C21_OriginFailureDistinct ==
    [][(/\ LatestStep
        /\ Called(read_ret', "repository.get_latest")
        /\ ~read_ret'.ok.db
        /\ AtOrigin(upper(read_ret'.ticker)) # Absent)
       => Outcome(read_ret')
             # Outcome(get_latest(store, origin, ZZZZ, AllOk))]_vars

\* ------------------------------------------------------------------------
\* C22
\* ------------------------------------------------------------------------
\* A step that is a whole call of get_history.
HistoryStep ==
    /\ read_ret = Nil
    /\ read_ret' # Nil
    /\ read_ret'.op = "get_history"

\* The response get_history builds from what the origin holds for request q.
OriginHistory(q) ==
    HistoryResponse(upper(q.ticker), q.interval,
                    repository_get_history(origin, upper(q.ticker),
                                           q.start_date, q.end_date,
                                           q.interval, TRUE))

\* C22: a failing cache is not seen by a reader.  set, when the backend
\* raises, returns False, raises nothing and writes nothing.  A get_latest
\* or get_history whose lookup of the cached result failed raises nothing,
\* queries the origin and returns the origin's quote or rows, as on a miss;
\* with the whole cache down it returns exactly what the repository returns;
\* one whose write failed raises nothing and returns what it returns when
\* the write works.
C22_CacheFailuresInvisible ==
    /\ [](\A k \in StoreKeys, v \in Texts, t \in TtlArgs :
            set(store, k, v, t, FALSE)
               = [store |-> store, ret |-> FALSE, exc |-> "none"])
    /\ [][(LatestStep /\ ~read_ret'.ok.get)
           => /\ read_ret'.exc = "none"
              /\ Called(read_ret', "repository.get_latest")
              /\ (read_ret'.ret = Absent)
                    <=> (AtOrigin(upper(read_ret'.ticker)) = Absent)
              /\ read_ret'.ret # Absent
                    => /\ read_ret'.ret[1].ticker = upper(read_ret'.ticker)
                       /\ <<read_ret'.ret[1].price>>
                             = AtOrigin(upper(read_ret'.ticker))]_vars
    /\ [][(LatestStep /\ read_ret'.ok = CacheDown)
           => read_ret'.ret
                 = repository_get_latest(origin, read_ret'.ticker, TRUE)]_vars
    /\ [][(LatestStep /\ ~read_ret'.ok.set)
           => /\ read_ret'.exc = "none"
              /\ read_ret'.ret
                    = get_latest(store, origin, read_ret'.ticker,
                                 [read_ret'.ok EXCEPT !.set = TRUE]).ret]_vars
    /\ [][(HistoryStep /\ ~read_ret'.ok.get)
           => /\ read_ret'.exc = "none"
              /\ Called(read_ret', "repository.get_history")
              /\ read_ret'.ret = OriginHistory(read_ret'.request)]_vars
    /\ [][(HistoryStep /\ ~read_ret'.ok.set)
           => /\ read_ret'.exc = "none"
              /\ read_ret'.ret
                    = get_history(store, origin, read_ret'.request,
                                  [read_ret'.ok EXCEPT !.set = TRUE]).ret]_vars

\* With the whole cache down and a stale response cached, get_history has
\* returned the rows of the origin.
C22_Witness ==
    /\ read_ret # Nil
    /\ read_ret.op = "get_history"
    /\ read_ret.ok = CacheDown
    /\ read_ret.ret.count = 1
    /\ \E k \in HistoryKeys :
          /\ store[k] # Nil
          /\ decode(store[k].val) # history_dump_json(read_ret.ret)
          /\ read_ret.request.interval = json_loads(decode(store[k].val)).interval

\* ------------------------------------------------------------------------
\* C26
\* ------------------------------------------------------------------------
\* The history key of request q.
HistoryKeyOf(q) ==
    make_history_key(upper(q.ticker), isoformat(q.start_date),
                     isoformat(q.end_date), q.interval)

\* C26: a get_history whose query of the origin failed, for a symbol the
\* origin has rows of, leaves the entry under its history key as it was.
C26_FailedQueryNotCached ==
    [][(/\ HistoryStep
        /\ Called(read_ret', "repository.get_history")
        /\ ~read_ret'.ok.db
        /\ AtOrigin(upper(read_ret'.ticker)) # Absent)
       => store'[HistoryKeyOf(read_ret'.request)]
             = store[HistoryKeyOf(read_ret'.request)]]_vars

\* ------------------------------------------------------------------------
\* C27
\* ------------------------------------------------------------------------
\* The handler of connection h has returned.
Terminated(h) == pc[h] = "done"

HandlerStep(h) ==
    \/ AcceptOk(h)
    \/ AcceptDisconnect(h)
    \/ AcceptError(h)
    \/ SubscribeOk(h)
    \/ \E b \in BOOLEAN : SubscribeError(h, b)
    \/ \E ok \in BOOLEAN : Listen(h, ok)
    \/ Finally(h)

\* The handlers under the event loop: a handler that can go on does.
SpecFair == Spec /\ \A h \in Conns : WF_vars(HandlerStep(h))

\* A failed delivery has removed connection h from the registry and its
\* handler is in the listen loop.
Orphaned(h) ==
    pc[h] = "listening" /\ send_failed[h] > 0 /\ ~Registered(h)

\* C29: a handler whose subscriber was removed by a failed delivery
\* eventually returns, its subscription and its client released.
C29_OrphanedHandlerLeaves ==
    \A h \in Conns :
       Orphaned(h) ~> (Terminated(h) /\ pubsub[h] = "closed"
                                     /\ ~redis_client[h])

\* ------------------------------------------------------------------------
\* C23
\* ------------------------------------------------------------------------
\* A step in which the loop of the listener takes the next message.
TakeStep ==
    /\ task = "listening"
    /\ channel # <<>>
    /\ taken' = Append(taken, Head(channel))

\* The message is not JSON or lacks one of the five fields.
Broken(m) ==
    \/ ~is_json(m.data)
    \/ \E f \in {"ticker", "score", "confidence", "timestamp",
                  "model_version"} : f \notin DOMAIN json_loads(m.data)

\* C23: taking a message that is not JSON or lacks one of ticker, score,
\* confidence, timestamp, model_version writes nothing to the cache, calls
\* no setex and raises nothing: the listener is in its loop, at the message
\* that follows.
C23_BrokenMessageDropped ==
    [][(TakeStep /\ Broken(Head(channel)))
       => /\ store' = store
          /\ setex_call' = Nil
          /\ task' = "listening"
          /\ channel' = Tail(channel)]_vars

\* The listener has dropped a message that is not JSON and one without its
\* score, and has cached the record of the message that followed them.
C23_Witness ==
    /\ taken = << ScoringMessage(NotJson),
                  ScoringMessage(json_dumps(without(ScoringData(AAPL, 85),
                                                    "score"))),
                  ScoringMessage(json_dumps(ScoringData(AAPL, 85))) >>
    /\ task = "listening"
    /\ store[capacity_key(AAPL)] # Nil

\* ------------------------------------------------------------------------
\* C24
\* ------------------------------------------------------------------------
\* The entry a setex call leaves in Redis.
Written(call) == [val |-> encode(call.value), ttl |-> call.ttl]

\* The setex the claim expects for the object of a complete message.
ExpectedSetex(data) ==
    [key   |-> <<"c", "a", "p", "a", "c", "i", "t", "y", ":",
                 "s", "c", "o", "r", "e", ":">> \o data.ticker,
     ttl   |-> 3600,
     value |-> json_dumps([score |-> data.score,
                           confidence |-> data.confidence,
                           last_updated |-> data.timestamp,
                           model_version |-> data.model_version])]

\* The setex calls of the complete messages.
CompleteCalls == {ExpectedSetex(json_loads(m.data)) : m \in CompleteMessages}

\* C24: taking a complete message makes one setex call, with the key
\* capacity:score:<ticker>, the TTL 3600 and the payload {score, confidence,
\* last_updated = timestamp, model_version}, and the next message is taken
\* only when that call is over; the cache changes only when a call ends, and
\* then only under the key of the call, where the record of the call
\* replaces whatever was there; writing the same record again changes
\* nothing, and of two records of one key the later one stays.
C24_OneWritePerMessage ==
    /\ [][(TakeStep /\ ~Broken(Head(channel)))
           => /\ task' = "writing"
              /\ setex_call' = ExpectedSetex(json_loads(Head(channel).data))
              /\ store' = store]_vars
    /\ [][store' # store
           => /\ task = "writing"
              /\ task' # "writing"
              /\ store'[setex_call.key] = Written(setex_call)
              /\ \A k \in StoreKeys \ {setex_call.key} :
                    store'[k] = store[k]]_vars
    /\ [](task = "writing" <=> setex_call # Nil)
    /\ [](\A c, d \in CompleteCalls :
            /\ redis_setex(redis_setex(store, c), c) = redis_setex(store, c)
            /\ redis_setex(redis_setex(store, c), d)[d.key] = Written(d)
            /\ \A k \in StoreKeys \ {d.key} :
                  redis_setex(redis_setex(store, c), d)[k]
                     = redis_setex(store, c)[k])

\* Three complete messages have been processed: two of AAPL, whose later
\* record is the one cached, and one of MSFT.
C24_Witness ==
    /\ taken = << ScoringMessage(json_dumps(ScoringData(AAPL, 85))),
                  ScoringMessage(json_dumps(ScoringData(MSFT, 85))),
                  ScoringMessage(json_dumps(ScoringData(AAPL, 40))) >>
    /\ task = "listening"
    /\ store[capacity_key(AAPL)]
          = [val |-> encode(json_dumps(CapacityRecord(40))), ttl |-> 3600]
    /\ store[capacity_key(MSFT)]
          = [val |-> encode(json_dumps(CapacityRecord(85))), ttl |-> 3600]

\* ------------------------------------------------------------------------
\* C25
\* ------------------------------------------------------------------------
\* The task of the listener is over.
Exited == {"cancelled", "returned"}

\* C25: when the task of the listener ends while it awaits a setex, the
\* record of that setex is in the cache, the pubsub is closed and the Redis
\* client is closed.
C25_InFlightWriteCompleted ==
    [][(task = "writing" /\ task' \in Exited)
       => /\ store'[setex_call.key] = Written(setex_call)
          /\ subscriber_pubsub' = "closed"
          /\ ~subscriber_redis']_vars

\* ------------------------------------------------------------------------
\* C30
\* ------------------------------------------------------------------------
\* The listener has taken a complete message for a spelling of symbol t and
\* the record it wrote for it is in the cache.
RecordReceived(t) ==
    \E i \in DOMAIN taken :
       /\ ~Broken(taken[i])
       /\ upper(json_loads(taken[i].data).ticker) = t
       /\ Entry(store, capacity_key(json_loads(taken[i].data).ticker))
             = Written(ExpectedSetex(json_loads(taken[i].data)))

\* C30: a read of a symbol that returns a quote, while the record the
\* listener received for some spelling of that symbol is cached, returns
\* the quote with a capacity context.
C30_RecordFoundByJoin ==
    [][(/\ LatestStep
        /\ read_ret'.ret # Absent
        /\ RecordReceived(upper(read_ret'.ticker)))
       => read_ret'.ret[1].capacity_context # Absent]_vars

\* ------------------------------------------------------------------------
\* C28
\* ------------------------------------------------------------------------
\* The call of caller c has returned.
Returned(c) == reader[c].pc = "done"

\* The call of caller c has asked the origin.
Queried(c) ==
    \E i \in DOMAIN reader[c].calls :
       reader[c].calls[i] = "repository.get_latest"

\* A whole quote of AAPL at a price the ingestion writes.
WholeQuote(q) ==
    /\ DOMAIN q = {"ticker", "price", "capacity_context"}
    /\ q.ticker = AAPL
    /\ q.price \in {1, 2}
    /\ q.capacity_context \in {<<>>, <<CapacityRecord(85)>>}

\* C28: the two calls work under the same key; a call that has returned
\* returns None only when it asked the origin, else a whole quote; as soon
\* as a call has returned a quote there is an entry under the key of the
\* two, and once both have returned it is the serialization of the quote
\* one of them returned.
C28_ConcurrentCallsAgree ==
    /\ \A c, d \in Callers :
          (reader[c].pc # "idle" /\ reader[d].pc # "idle")
             => reader[c].cache_key = reader[d].cache_key
    /\ \A c \in Callers :
          Returned(c)
             => /\ reader[c].ret = <<>> => Queried(c)
                /\ reader[c].ret # <<>>
                      => /\ WholeQuote(reader[c].ret[1])
                         /\ store[reader[c].cache_key] # Nil
    /\ (\A c \in Callers : Returned(c) /\ reader[c].ret # <<>>)
          => \E c \in Callers :
                decode(store[reader[c].cache_key].val)
                   = model_dump_json(reader[c].ret[1])

\* Both calls found the cache cold and asked the origin, which changed in
\* between: they returned different quotes, and the entry is that of the
\* first caller.
C28_Witness ==
    /\ \A c \in Callers : Returned(c) /\ Queried(c) /\ reader[c].ret # <<>>
    /\ reader[1].ret # reader[2].ret
    /\ decode(store[reader[1].cache_key].val)
          = model_dump_json(reader[1].ret[1])
====
